---- MODULE Spec2Model ----
(***************************************************************************)
(* Session store, cache store, cache manager and health aggregation of    *)
(* the MCP bridge server (src/mcp-server/src).                             *)
(*                                                                         *)
(* Time is in seconds.  Python values are modelled by tokens; strings      *)
(* that are concatenated or matched by prefix are sequences of tokens.     *)
(***************************************************************************)
EXTENDS Integers, Sequences, FiniteSets, TLC

VARIABLES
    now,            \* datetime.utcnow(), in seconds
    ticks,          \* number of clock steps taken so far
    sbackend,       \* session manager selected at startup: "memory" | "redis"
    sessions,       \* InMemorySessionManager.sessions
    user_sessions,  \* InMemorySessionManager.user_sessions
    sm_client,      \* RedisSessionManager.redis_client: "None" | "Redis"
    cleanup_task,   \* RedisSessionManager._cleanup_task: "None" | "Task"
    redis_up,       \* whether the Redis server answers
    r_session,      \* Redis hashes session:{id}: id -> [h |-> fields, exp |-> expiry]
    r_user,         \* Redis strings user_session:{u}: u -> [v |-> id, exp |-> expiry]
    r_active,       \* Redis set active_sessions
    sret,           \* outcome of the last session-store call
    sprev,          \* outcome of the call before it
    cbackend,       \* cache service selected at startup: "memory" | "redis"
    cache,          \* InMemoryCacheService.cache: physical key -> entry
    cache_client,   \* RedisCacheService.redis_client: "None" | "Redis"
    cache_pinged,   \* whether a connect() of the Redis cache service has returned normally
    r_cache,        \* Redis strings under mcp_cache: physical key -> [v, exp]
    hit_count,      \* CacheManager.hit_count
    miss_count,     \* CacheManager.miss_count
    gos,            \* the get_or_set calls in progress, per caller
    cret,           \* outcome of the last cache call
    written,        \* per physical key: the arguments of the last set that succeeded
    calls,          \* get_or_set calls: how many were started, returned, raised by the
                    \* cache read or failed in value_func, how often value_func and
                    \* set were called, the last value returned, and whether a call
                    \* wrote while another had computed for the same key and not written
    stats,          \* what get_cache_stats returned, while it is the manager's last call
    h_components,   \* check_overall_health: the dict components, in insertion order
    h_status,       \* check_overall_health: the overall status it returned
    h_initialized,  \* MCPServer._initialized
    h_response,     \* the JSONResponse GET /health returned last
    h_checks,       \* check_overall_health: what asyncio.gather returned last
    k_prev,         \* cache_key_for_suggestion: the call before the last, with its digest
    k_last,         \* cache_key_for_suggestion: the last call, with its digest
    pair,           \* what the same call returned from each of the two cache services
    l_tasks,        \* per task: the coroutine it runs and the instruction it is at
    l_locks,        \* per asyncio.Lock: the task that holds it, 0 when free
    sys_last,       \* _check_system_health: the readings and the component of the last call
    ext_last,       \* _check_vscode_health / _check_external_services_health: the last call
    q_cfg,          \* HealthService: whether a session manager and a cache service were given
    q_cycles,       \* per health cycle: where its cache probe is, what the probes saw
                    \* and the status each reported
    b_task,         \* _monitoring_task / _cleanup_task: the loop task the attribute names
    b_loops,        \* the loop tasks created so far, per service
    b_stop,         \* stop_monitoring / disconnect: where the last call is
    b_healths       \* HealthService.component_healths

svars == <<sbackend, sessions, user_sessions, sm_client, cleanup_task, r_session, r_user,
           r_active, sret, sprev>>
cvars == <<cbackend, cache, cache_client, cache_pinged, r_cache, hit_count, miss_count, gos,
           cret, written, calls, stats>>
hvars == <<h_components, h_status, h_initialized, h_response, h_checks>>
kvars == <<k_prev, k_last>>
pvars == <<pair>>
lvars == <<l_tasks, l_locks>>
yvars == <<sys_last, ext_last>>
qvars == <<q_cfg, q_cycles>>
bvars == <<b_task, b_loops, b_stop, b_healths>>
xvars == <<yvars, qvars, bvars>>
vars == <<now, ticks, redis_up, svars, cvars, hvars, kvars, pvars, lvars, xvars>>

\* what a call on one subsystem leaves alone
SessionFrame == UNCHANGED <<now, ticks, redis_up, cvars, hvars, kvars, pvars, lvars, xvars>>
CacheFrame == UNCHANGED <<now, ticks, redis_up, svars, hvars, kvars, pvars, lvars, xvars>>
HealthFrame == UNCHANGED <<now, ticks, redis_up, svars, cvars, kvars, pvars, lvars, xvars>>
KeyFrame == UNCHANGED <<now, ticks, redis_up, svars, cvars, hvars, pvars, lvars, xvars>>

-----------------------------------------------------------------------------
(* Bounds of the model *)

MaxTicks == 2
MaxSessions == 2
MaxCallers == 2
MaxCalls == 3
MaxTasks == 2
MaxCycles == 2
MaxStarts == 2

Users == {"u1", "u2"}
Workspaces == {"None", "", "/ws"}
SessionIds == 1..MaxSessions

-----------------------------------------------------------------------------
(* Partial maps *)

Put(f, k, v) == [x \in (DOMAIN f) \cup {k} |-> IF x = k THEN v ELSE f[x]]
Drop(f, K) == [x \in (DOMAIN f) \ K |-> f[x]]
EmptyMap == [x \in {} |-> 0]

-----------------------------------------------------------------------------
(* types.py *)

\* class SessionStatus(str, Enum): member name -> value
SessionStatus ==
    [ACTIVE |-> "active", INACTIVE |-> "inactive",
     EXPIRED |-> "expired", BLOCKED |-> "blocked"]

\* attribute access SessionStatus.<name>: the value, or AttributeError
SessionStatusAttr(name) ==
    IF name \in DOMAIN SessionStatus THEN SessionStatus[name] ELSE "AttributeError"

\* SessionStatus(value): the enum lookup by value done by get_session
SessionStatusOfValue(v) ==
    IF \E n \in DOMAIN SessionStatus : SessionStatus[n] = v THEN v ELSE "ValueError"

\* @dataclass class Session: the declared fields, none with a default
SessionFields ==
    {"id", "whatsapp_user", "vscode_workspace", "status", "created_at",
     "last_activity", "context", "active_suggestions", "metadata"}

\* Session(**kw): the generated __init__ takes exactly the declared fields
SessionInit(kw) == IF kw = SessionFields THEN "ok" ELSE "TypeError"

\* types.create_session(): the one constructor call that matches the dataclass;
\* the object has an attribute id and no attribute session_id
FactoryAttrs == SessionFields

-----------------------------------------------------------------------------
(* session_manager.py: shared pieces *)

session_ttl == 86400

\* the keywords both managers pass to Session(...)
SessionKeywords ==
    {"session_id", "whatsapp_user", "workspace", "status", "created_at",
     "last_activity", "suggestions_count", "commands_executed"}

\* the Session object built by create_session
NewSession(sid, u, w) ==
    [session_id |-> sid, whatsapp_user |-> u, workspace |-> w,
     status |-> SessionStatusAttr("ACTIVE"), created_at |-> now,
     last_activity |-> now, suggestions_count |-> 0,
     commands_executed |-> <<>>]

\* str(uuid4()): an id no stored session carries
UsedIds == (DOMAIN sessions) \cup (DOMAIN r_session) \cup r_active
FreshIds == SessionIds \ UsedIds

\* the result of a call: what it returned or raised
Ret(op, u, sid, out, ss, n) ==
    [op |-> op, user |-> u, sid |-> sid, out |-> out, session |-> ss, count |-> n,
     at |-> now]
NoCall == Ret("none", "-", 0, "None", {}, 0)

Returned(r) == r.out \in {"ok", "None"}
Raised(r) == ~Returned(r)

-----------------------------------------------------------------------------
(* session_manager.py: InMemorySessionManager *)

Finish(r) == sprev' = sret /\ sret' = r

\* the objects a caller can hand to update_session: a stored session it got from
\* the manager, with its counter possibly raised, or the object types.create_session
\* builds
HeldSessions(recs) ==
    UNION {{r, [r EXCEPT !.suggestions_count = 1]} : r \in recs}
UpdateArgs(recs) ==
    {[attrs |-> FactoryAttrs, s |-> {}]}
    \cup {[attrs |-> SessionKeywords, s |-> {r}] : r \in HeldSessions(recs)}

MemExisting(u) ==
    IF /\ u \in DOMAIN user_sessions
       /\ user_sessions[u] \in DOMAIN sessions
       /\ sessions[user_sessions[u]].status = SessionStatusAttr("ACTIVE")
    THEN {sessions[user_sessions[u]]}
    ELSE {}

MemCreateSession(u, w) ==
    /\ sbackend = "memory"
    /\ IF MemExisting(u) # {}
       THEN /\ Finish(Ret("create_session", u, 0, "ok", MemExisting(u), 0))
            /\ UNCHANGED <<sessions, user_sessions>>
       ELSE IF SessionInit(SessionKeywords) # "ok"
       THEN /\ Finish(Ret("create_session", u, 0, SessionInit(SessionKeywords), {}, 0))
            /\ UNCHANGED <<sessions, user_sessions>>
       ELSE /\ FreshIds # {}
            /\ LET sid == CHOOSE i \in FreshIds : \A j \in FreshIds : i <= j
                   session == NewSession(sid, u, w)
               IN /\ sessions' = Put(sessions, sid, session)
                  /\ user_sessions' = Put(user_sessions, u, sid)
                  /\ Finish(Ret("create_session", u, sid, "ok", {session}, 0))
    /\ UNCHANGED <<sbackend, sm_client, cleanup_task, r_session, r_user, r_active>>
    /\ SessionFrame

MemGetSession(sid) ==
    /\ sbackend = "memory"
    /\ Finish(IF sid \in DOMAIN sessions
              THEN Ret("get_session", "-", sid, "ok", {sessions[sid]}, 0)
              ELSE Ret("get_session", "-", sid, "None", {}, 0))
    /\ UNCHANGED <<sbackend, sessions, user_sessions, sm_client, cleanup_task, r_session, r_user,
                   r_active>>
    /\ SessionFrame

MemGetUserSession(u) ==
    /\ sbackend = "memory"
    /\ Finish(IF u \in DOMAIN user_sessions /\ user_sessions[u] \in DOMAIN sessions
              THEN Ret("get_user_session", u, user_sessions[u], "ok",
                       {sessions[user_sessions[u]]}, 0)
              ELSE Ret("get_user_session", u, 0, "None", {}, 0))
    /\ UNCHANGED <<sbackend, sessions, user_sessions, sm_client, cleanup_task, r_session, r_user,
                   r_active>>
    /\ SessionFrame

MemUpdateSession(o) ==
    /\ sbackend = "memory"
    /\ IF "session_id" \notin o.attrs
       THEN \* session.session_id raises after last_activity was set on the caller's object
            /\ Finish(Ret("update_session", "-", 0, "AttributeError", {}, 0))
            /\ UNCHANGED sessions
       ELSE LET r == CHOOSE x \in o.s : TRUE
                session == [r EXCEPT !.last_activity = now]
            IN /\ sessions' = Put(sessions, session.session_id, session)
               /\ Finish(Ret("update_session", session.whatsapp_user,
                             session.session_id, "None", {session}, 0))
    /\ UNCHANGED <<sbackend, user_sessions, sm_client, cleanup_task, r_session, r_user, r_active>>
    /\ SessionFrame

\* the in-memory end_session on a stored session, as a function of the two maps:
\* the status is assigned first, so an AttributeError leaves both maps as they were
MemEnd(S, sid) ==
    IF sid \notin DOMAIN S.sessions
    THEN [S |-> S, out |-> "None"]
    ELSE IF SessionStatusAttr("ENDED") = "AttributeError"
    THEN [S |-> S, out |-> "AttributeError"]
    ELSE LET session == [S.sessions[sid] EXCEPT
                            !.status = SessionStatusAttr("ENDED"),
                            !.last_activity = now]
         IN [S |-> [sessions |-> Put(S.sessions, sid, session),
                    user_sessions |-> Drop(S.user_sessions, {session.whatsapp_user})],
             out |-> "None"]

MemState == [sessions |-> sessions, user_sessions |-> user_sessions]

MemEndSession(sid) ==
    /\ sbackend = "memory"
    /\ LET e == MemEnd(MemState, sid)
       IN /\ sessions' = e.S.sessions
          /\ user_sessions' = e.S.user_sessions
          /\ Finish(Ret("end_session", "-", sid, e.out, {}, 0))
    /\ UNCHANGED <<sbackend, sm_client, cleanup_task, r_session, r_user, r_active>>
    /\ SessionFrame

\* end_session over the expired ids, in the order of the list; stops at the first raise
RECURSIVE MemEndAll(_, _)
MemEndAll(S, order) ==
    IF order = <<>>
    THEN [S |-> S, out |-> "ok"]
    ELSE LET e == MemEnd(S, Head(order))
         IN IF e.out = "AttributeError" THEN e ELSE MemEndAll(e.S, Tail(order))

\* the sequences that list the set s once each
Orders(s) ==
    {q \in [1..Cardinality(s) -> s] : \A i, j \in 1..Cardinality(s) : q[i] = q[j] => i = j}

MemExpired == {sid \in DOMAIN sessions : sessions[sid].last_activity < now - session_ttl}

MemCleanupExpiredSessions ==
    /\ sbackend = "memory"
    /\ LET order == CHOOSE q \in Orders(MemExpired) :
                        \A i, j \in DOMAIN q : i < j => q[i] < q[j]
           e == MemEndAll(MemState, order)
       IN /\ sessions' = e.S.sessions
          /\ user_sessions' = e.S.user_sessions
          /\ Finish(IF e.out = "ok"
                    THEN Ret("cleanup_expired_sessions", "-", 0, "ok", {}, Len(order))
                    ELSE Ret("cleanup_expired_sessions", "-", 0, e.out, {}, 0))
    /\ UNCHANGED <<sbackend, sm_client, cleanup_task, r_session, r_user, r_active>>
    /\ SessionFrame

-----------------------------------------------------------------------------
(* session_manager.py: RedisSessionManager *)

\* a key lives until its expiry time has passed
Live(m) == {k \in DOMAIN m : now <= m[k].exp}

\* session.workspace or "": None and the empty string are written alike
WorkspaceField(w) == IF w = "None" THEN "" ELSE w
\* session_data["workspace"] or None
WorkspaceOfField(f) == IF f = "" THEN "None" ELSE f

\* the mapping create_session writes with hset
SessionData(session) ==
    [session_id |-> session.session_id,
     whatsapp_user |-> session.whatsapp_user,
     workspace |-> WorkspaceField(session.workspace),
     status |-> session.status,
     created_at |-> session.created_at,
     last_activity |-> session.last_activity,
     suggestions_count |-> session.suggestions_count,
     commands_executed |-> session.commands_executed]

\* the five fields update_session writes with hset
UpdateData(session) ==
    [status |-> session.status,
     last_activity |-> now,
     suggestions_count |-> session.suggestions_count,
     commands_executed |-> session.commands_executed,
     workspace |-> WorkspaceField(session.workspace)]

\* hset(key, mapping=m) on the hash h
HSet(h, m) == [f \in (DOMAIN h) \cup (DOMAIN m) |-> IF f \in DOMAIN m THEN m[f] ELSE h[f]]

\* get_session after hgetall: the keyword values are read first (KeyError and
\* ValueError give None), then Session(...) is called
ParseSession(rs, sid) ==
    IF sid \notin Live(rs)
    THEN [out |-> "None", s |-> {}]
    ELSE LET h == rs[sid].h
         IN IF ~(SessionKeywords \subseteq DOMAIN h)
            THEN [out |-> "None", s |-> {}]
            ELSE IF SessionStatusOfValue(h.status) = "ValueError"
            THEN [out |-> "None", s |-> {}]
            ELSE IF SessionInit(SessionKeywords) # "ok"
            THEN [out |-> SessionInit(SessionKeywords), s |-> {}]
            ELSE [out |-> "ok",
                  s |-> {[session_id |-> h.session_id,
                          whatsapp_user |-> h.whatsapp_user,
                          workspace |-> WorkspaceOfField(h.workspace),
                          status |-> h.status,
                          created_at |-> h.created_at,
                          last_activity |-> h.last_activity,
                          suggestions_count |-> h.suggestions_count,
                          commands_executed |-> h.commands_executed]}]

\* get_user_session: the index entry, then get_session
ParseUserSession(rs, ru, u) ==
    IF u \notin Live(ru) THEN [out |-> "None", s |-> {}] ELSE ParseSession(rs, ru[u].v)

RedisState == [rs |-> r_session, ru |-> r_user, ra |-> r_active]

\* what every method checks first, and what the first round trip does when the
\* server does not answer (the session manager catches nothing)
Precheck == IF sm_client = "None" THEN "RuntimeError"
            ELSE IF ~redis_up THEN "ConnectionError"
            ELSE "ok"

RedisUnchanged == UNCHANGED <<r_session, r_user, r_active>>
MemUnchanged == UNCHANGED <<sessions, user_sessions>>

RedisConnect ==
    /\ sbackend = "redis"
    /\ sm_client' = "Redis"
    /\ cleanup_task' = IF redis_up THEN "Task" ELSE cleanup_task
    /\ Finish(Ret("connect", "-", 0, IF redis_up THEN "None" ELSE "ConnectionError", {}, 0))
    /\ RedisUnchanged /\ MemUnchanged /\ UNCHANGED sbackend
    /\ SessionFrame

RedisCreateSession(u, w) ==
    /\ sbackend = "redis"
    /\ LET existing == ParseUserSession(r_session, r_user, u)
       IN IF Precheck # "ok"
          THEN Finish(Ret("create_session", u, 0, Precheck, {}, 0)) /\ RedisUnchanged
          ELSE IF existing.out \notin {"ok", "None"}
          THEN Finish(Ret("create_session", u, 0, existing.out, {}, 0)) /\ RedisUnchanged
          ELSE IF \E e \in existing.s : e.status = SessionStatusAttr("ACTIVE")
          THEN Finish(Ret("create_session", u, 0, "ok", existing.s, 0)) /\ RedisUnchanged
          ELSE IF SessionInit(SessionKeywords) # "ok"
          THEN /\ Finish(Ret("create_session", u, 0, SessionInit(SessionKeywords), {}, 0))
               /\ RedisUnchanged
          ELSE /\ FreshIds # {}
               /\ LET sid == CHOOSE i \in FreshIds : \A j \in FreshIds : i <= j
                      session == NewSession(sid, u, w)
                  IN \* one pipeline: hset, expire, set ex, sadd
                     /\ r_session' = Put(r_session, sid,
                            [h |-> SessionData(session), exp |-> now + session_ttl])
                     /\ r_user' = Put(r_user, u, [v |-> sid, exp |-> now + session_ttl])
                     /\ r_active' = r_active \cup {sid}
                     /\ Finish(Ret("create_session", u, sid, "ok", {session}, 0))
    /\ MemUnchanged /\ UNCHANGED <<sbackend, sm_client, cleanup_task>>
    /\ SessionFrame

RedisGetSession(sid) ==
    /\ sbackend = "redis"
    /\ LET g == ParseSession(r_session, sid)
       IN Finish(IF Precheck # "ok"
                 THEN Ret("get_session", "-", sid, Precheck, {}, 0)
                 ELSE Ret("get_session", "-", sid, g.out, g.s, 0))
    /\ RedisUnchanged /\ MemUnchanged /\ UNCHANGED <<sbackend, sm_client, cleanup_task>>
    /\ SessionFrame

RedisGetUserSession(u) ==
    /\ sbackend = "redis"
    /\ LET g == ParseUserSession(r_session, r_user, u)
       IN Finish(IF Precheck # "ok"
                 THEN Ret("get_user_session", u, 0, Precheck, {}, 0)
                 ELSE Ret("get_user_session", u, 0, g.out, g.s, 0))
    /\ RedisUnchanged /\ MemUnchanged /\ UNCHANGED <<sbackend, sm_client, cleanup_task>>
    /\ SessionFrame

\* hset of the five fields (a missing hash is created by it), then expire
RedisUpdateSession(o) ==
    /\ sbackend = "redis"
    /\ IF sm_client = "None"
       THEN Finish(Ret("update_session", "-", 0, "RuntimeError", {}, 0)) /\ UNCHANGED r_session
       ELSE IF "session_id" \notin o.attrs
       THEN Finish(Ret("update_session", "-", 0, "AttributeError", {}, 0))
            /\ UNCHANGED r_session
       ELSE IF ~redis_up
       THEN Finish(Ret("update_session", "-", 0, "ConnectionError", {}, 0))
            /\ UNCHANGED r_session
       ELSE LET session == CHOOSE x \in o.s : TRUE
                sid == session.session_id
                old == IF sid \in Live(r_session) THEN r_session[sid].h ELSE EmptyMap
            IN /\ r_session' = Put(r_session, sid,
                      [h |-> HSet(old, UpdateData(session)), exp |-> now + session_ttl])
               /\ Finish(Ret("update_session", session.whatsapp_user, sid, "None",
                             {[session EXCEPT !.last_activity = now]}, 0))
    /\ UNCHANGED <<r_user, r_active>>
    /\ MemUnchanged /\ UNCHANGED <<sbackend, sm_client, cleanup_task>>
    /\ SessionFrame

\* end_session on the Redis state S: get_session, the status assignment, then one
\* pipeline of hset status, hset last_activity, srem, delete
RedisEnd(S, sid) ==
    LET g == ParseSession(S.rs, sid)
    IN IF g.out = "None"
       THEN [S |-> S, out |-> "None"]
       ELSE IF g.out # "ok"
       THEN [S |-> S, out |-> g.out]
       ELSE IF SessionStatusAttr("ENDED") = "AttributeError"
       THEN [S |-> S, out |-> "AttributeError"]
       ELSE LET session == CHOOSE x \in g.s : TRUE
                h == HSet(S.rs[sid].h, [status |-> SessionStatusAttr("ENDED"),
                                        last_activity |-> now])
            IN [S |-> [rs |-> Put(S.rs, sid, [h |-> h, exp |-> S.rs[sid].exp]),
                       ru |-> Drop(S.ru, {session.whatsapp_user}),
                       ra |-> S.ra \ {sid}],
                out |-> "None"]

RedisEndSession(sid) ==
    /\ sbackend = "redis"
    /\ LET e == RedisEnd(RedisState, sid)
       IN IF Precheck # "ok"
          THEN Finish(Ret("end_session", "-", sid, Precheck, {}, 0)) /\ RedisUnchanged
          ELSE /\ r_session' = e.S.rs
               /\ r_user' = e.S.ru
               /\ r_active' = e.S.ra
               /\ Finish(Ret("end_session", "-", sid, e.out, {}, 0))
    /\ MemUnchanged /\ UNCHANGED <<sbackend, sm_client, cleanup_task>>
    /\ SessionFrame

\* the sweep's loop over smembers, in the order the set was returned
RECURSIVE RedisSweep(_, _, _, _)
RedisSweep(S, order, cutoff, cleaned) ==
    IF order = <<>>
    THEN [S |-> S, out |-> "ok", count |-> cleaned]
    ELSE LET sid == Head(order)
             g == ParseSession(S.rs, sid)
         IN IF g.out = "None"
            THEN RedisSweep([S EXCEPT !.ra = S.ra \ {sid}], Tail(order), cutoff, cleaned + 1)
            ELSE IF g.out # "ok"
            THEN [S |-> S, out |-> g.out, count |-> 0]
            ELSE IF \E x \in g.s : x.last_activity < cutoff
            THEN LET e == RedisEnd(S, sid)
                 IN IF e.out = "None"
                    THEN RedisSweep(e.S, Tail(order), cutoff, cleaned + 1)
                    ELSE [S |-> e.S, out |-> e.out, count |-> 0]
            ELSE RedisSweep(S, Tail(order), cutoff, cleaned)

RedisCleanupExpiredSessions ==
    /\ sbackend = "redis"
    /\ IF Precheck # "ok"
       THEN Finish(Ret("cleanup_expired_sessions", "-", 0, Precheck, {}, 0)) /\ RedisUnchanged
       ELSE \E order \in Orders(r_active) :
              LET e == RedisSweep(RedisState, order, now - session_ttl, 0)
              IN /\ r_session' = e.S.rs
                 /\ r_user' = e.S.ru
                 /\ r_active' = e.S.ra
                 /\ Finish(Ret("cleanup_expired_sessions", "-", 0, e.out, {}, e.count))
    /\ MemUnchanged /\ UNCHANGED <<sbackend, sm_client, cleanup_task>>
    /\ SessionFrame

RedisGetActiveSessionCount ==
    /\ sbackend = "redis"
    /\ Finish(IF Precheck # "ok"
              THEN Ret("get_active_session_count", "-", 0, Precheck, {}, 0)
              ELSE Ret("get_active_session_count", "-", 0, "ok", {}, Cardinality(r_active)))
    /\ RedisUnchanged /\ MemUnchanged /\ UNCHANGED <<sbackend, sm_client, cleanup_task>>
    /\ SessionFrame

\* the sessions get_all_active_sessions collects; it raises what get_session raises
RedisGetAllActiveSessions ==
    /\ sbackend = "redis"
    /\ LET got == {ParseSession(r_session, sid) : sid \in r_active}
           bad == {g.out : g \in got} \ {"ok", "None"}
       IN Finish(IF Precheck # "ok"
                 THEN Ret("get_all_active_sessions", "-", 0, Precheck, {}, 0)
                 ELSE IF bad # {}
                 THEN Ret("get_all_active_sessions", "-", 0, CHOOSE b \in bad : TRUE, {}, 0)
                 ELSE Ret("get_all_active_sessions", "-", 0, "ok",
                          UNION {g.s : g \in got}, 0))
    /\ RedisUnchanged /\ MemUnchanged /\ UNCHANGED <<sbackend, sm_client, cleanup_task>>
    /\ SessionFrame

-----------------------------------------------------------------------------
(* cache_service.py: values, keys and serialization *)

default_ttl == 3600

\* Python values a caller stores; a list is what a tuple comes back as
Values == {"None", "str", "tuple"}

\* json.dumps of the value inside the {"type": ..., "value": ...} wrapper
JsonOf(v) == CASE v = "None"  -> "null"
               [] v = "str"   -> "\"s\""
               [] v = "tuple" -> "[1, 2]"
               [] v = "list"  -> "[1, 2]"
               [] v = "dict"  -> "{\"timestamp\": \"t\"}"

\* json.loads of that text
OfJson(j) == CASE j = "null"   -> "None"
               [] j = "\"s\""  -> "str"
               [] j = "[1, 2]" -> "list"
               [] j = "{\"timestamp\": \"t\"}" -> "dict"

\* _serialize_value: the tag depends on the type, the payload is json.dumps(value)
SerializeValue(v) ==
    [type |-> IF v = "str" THEN "simple" ELSE "complex", value |-> JsonOf(v)]

\* _deserialize_value: data.get("value"); the tag is not read
DeserializeValue(ser) == OfJson(ser.value)

\* strings that are concatenated: sequences of tokens
Namespaces == {<<"a">>, <<"a", ":", "b">>}
Keys == {<<"c">>, <<"b", ":", "c">>}
\* the (key, namespace) pairs of the direct calls
StorePairs == {<<<<"c">>, <<"a">>>>}
\* (key, namespace) pairs in which the key or the namespace contains ':'
NamePairs == {<<<<"c">>, <<"a">>>>, <<<<"c">>, <<"a", ":", "b">>>>, <<<<"b", ":", "c">>, <<"a">>>>}
key_prefix == <<"mcp_cache:">>

\* InMemoryCacheService._make_key
MemMakeKey(key, namespace) == namespace \o <<":">> \o key
\* RedisCacheService._make_key
RedisMakeKey(key, namespace) == key_prefix \o namespace \o <<":">> \o key

\* str.startswith
StartsWith(str, pre) == Len(pre) <= Len(str) /\ SubSeq(str, 1, Len(pre)) = pre

\* ttl arguments: <<>> is None, <<n>> is the integer n
TtlArgs == {<<>>, <<0>>, <<1>>, <<-1>>}
\* ttl or self.default_ttl
TtlOr(ttl) == IF ttl = <<>> \/ ttl[1] = 0 THEN default_ttl ELSE ttl[1]

\* the result of a cache call
CRet(op, key, ns, out, val, n) ==
    [op |-> op, key |-> key, ns |-> ns, out |-> out, val |-> val, count |-> n,
     at |-> now, up |-> redis_up]
NoCacheCall == CRet("none", <<>>, <<>>, "ok", "None", 0)

-----------------------------------------------------------------------------
(* cache_service.py: InMemoryCacheService, as functions of the dict *)

\* _is_expired
IsExpired(entry) == now > entry.expires_at

\* get: the value, and the dict after the lazy removal
MemGet(c, key, ns) ==
    LET k == MemMakeKey(key, ns)
    IN IF k \notin DOMAIN c THEN [c |-> c, val |-> "None"]
       ELSE IF IsExpired(c[k]) THEN [c |-> Drop(c, {k}), val |-> "None"]
       ELSE [c |-> c, val |-> c[k].value]

\* a set that keeps the entry a key already has
MemSet_KeepFirst(c, key, value, ttl, ns) ==
    IF MemMakeKey(key, ns) \in DOMAIN c
    THEN [c |-> c, val |-> "True"]
    ELSE [c |-> Put(c, MemMakeKey(key, ns),
                    [value |-> value, expires_at |-> now + TtlOr(ttl), created_at |-> now]),
          val |-> "True"]

MemSet(c, key, value, ttl, ns) ==
    [c |-> Put(c, MemMakeKey(key, ns),
               [value |-> value, expires_at |-> now + TtlOr(ttl), created_at |-> now]),
     val |-> "True"]

MemDelete(c, key, ns) ==
    LET k == MemMakeKey(key, ns)
    IN IF k \in DOMAIN c THEN [c |-> Drop(c, {k}), val |-> "True"]
       ELSE [c |-> c, val |-> "False"]

MemExists(c, key, ns) ==
    LET k == MemMakeKey(key, ns)
    IN IF k \notin DOMAIN c THEN [c |-> c, val |-> "False"]
       ELSE IF IsExpired(c[k]) THEN [c |-> Drop(c, {k}), val |-> "False"]
       ELSE [c |-> c, val |-> "True"]

MemClearNamespace(c, ns) ==
    LET keys_to_delete == {k \in DOMAIN c : StartsWith(k, ns \o <<":">>)}
    IN [c |-> Drop(c, keys_to_delete), count |-> Cardinality(keys_to_delete)]

-----------------------------------------------------------------------------
(* cache_service.py: RedisCacheService, as functions of the keyspace *)

\* what each method does before its try block, and inside it when the server
\* does not answer (the except branch)
CachePrecheck == IF cache_client = "None" THEN "RuntimeError"
                 ELSE IF ~redis_up THEN "caught"
                 ELSE "ok"

RedisGet(rc, key, ns) ==
    LET k == RedisMakeKey(key, ns)
    IN IF k \notin Live(rc) THEN [c |-> rc, val |-> "None"]
       ELSE [c |-> rc, val |-> DeserializeValue(rc[k].v)]

\* setex refuses a ttl that is not positive; the error is caught
RedisSet(rc, key, value, ttl, ns) ==
    IF TtlOr(ttl) <= 0
    THEN [c |-> rc, val |-> "False"]
    ELSE [c |-> Put(rc, RedisMakeKey(key, ns),
                    [v |-> SerializeValue(value), exp |-> now + TtlOr(ttl)]),
          val |-> "True"]

RedisDelete(rc, key, ns) ==
    LET k == RedisMakeKey(key, ns)
    IN IF k \in Live(rc) THEN [c |-> Drop(rc, {k}), val |-> "True"]
       ELSE [c |-> rc, val |-> "False"]

RedisExists(rc, key, ns) ==
    [c |-> rc, val |-> IF RedisMakeKey(key, ns) \in Live(rc) THEN "True" ELSE "False"]

\* keys(prefix + namespace + ":*"), then delete(*keys)
RedisClearNamespace(rc, ns) ==
    LET keys == {k \in Live(rc) : StartsWith(k, key_prefix \o ns \o <<":">>)}
    IN [c |-> Drop(rc, keys), count |-> Cardinality(keys)]

-----------------------------------------------------------------------------
(* The cache service the server selected: each call goes to the backend's method. *)
(* out is "ok" or the error the call raised; mem and redis are the stores after it *)

Svc(out, val, n, mem, redis) ==
    [out |-> out, val |-> val, count |-> n, mem |-> mem, redis |-> redis]

\* a Redis method: the connection check, then the try block
RedisCall(r, benign) ==
    IF CachePrecheck = "RuntimeError" THEN Svc("RuntimeError", "None", 0, cache, r_cache)
    ELSE IF CachePrecheck = "caught" THEN Svc("ok", benign, 0, cache, r_cache)
    ELSE Svc("ok", r.val, 0, cache, r.c)

MemCall(r) == Svc("ok", r.val, 0, r.c, r_cache)

SvcGet(key, ns) ==
    IF cbackend = "memory" THEN MemCall(MemGet(cache, key, ns))
    ELSE RedisCall(RedisGet(r_cache, key, ns), "None")

SvcSet(key, value, ttl, ns) ==
    IF cbackend = "memory" THEN MemCall(MemSet(cache, key, value, ttl, ns))
    ELSE RedisCall(RedisSet(r_cache, key, value, ttl, ns), "False")

SvcDelete(key, ns) ==
    IF cbackend = "memory" THEN MemCall(MemDelete(cache, key, ns))
    ELSE RedisCall(RedisDelete(r_cache, key, ns), "False")

SvcExists(key, ns) ==
    IF cbackend = "memory" THEN MemCall(MemExists(cache, key, ns))
    ELSE RedisCall(RedisExists(r_cache, key, ns), "False")

SvcClearNamespace(ns) ==
    IF cbackend = "memory"
    THEN LET r == MemClearNamespace(cache, ns) IN Svc("ok", "None", r.count, r.c, r_cache)
    ELSE IF CachePrecheck = "RuntimeError" THEN Svc("RuntimeError", "None", 0, cache, r_cache)
    ELSE IF CachePrecheck = "caught" THEN Svc("ok", "None", 0, cache, r_cache)
    ELSE LET r == RedisClearNamespace(r_cache, ns)
         IN Svc("ok", "None", r.count, cache, r.c)

\* the physical key without the backend's prefix, to name an entry in either store
Phys(key, ns) == MemMakeKey(key, ns)

\* the stored entry under (key, ns) in the selected store, as a set
Stored(key, ns) ==
    IF cbackend = "memory"
    THEN {cache[k] : k \in {MemMakeKey(key, ns)} \cap DOMAIN cache}
    ELSE {r_cache[k] : k \in {RedisMakeKey(key, ns)} \cap DOMAIN r_cache}

Apply(r) == cache' = r.mem /\ r_cache' = r.redis

ManagerUnchanged == UNCHANGED <<hit_count, miss_count, gos, calls, stats>>

CacheConnect ==
    /\ cbackend = "redis"
    /\ cache_client' = "Redis"
    /\ cache_pinged' = (cache_pinged \/ redis_up)
    /\ cret' = CRet("connect", <<>>, <<>>, IF redis_up THEN "ok" ELSE "ConnectionError",
                    "None", 0)
    /\ UNCHANGED <<cbackend, cache, r_cache, written>> /\ ManagerUnchanged
    /\ CacheFrame

CacheGet(key, ns) ==
    /\ LET r == SvcGet(key, ns)
       IN Apply(r) /\ cret' = CRet("get", key, ns, r.out, r.val, 0)
    /\ UNCHANGED <<cbackend, cache_client, cache_pinged, written>> /\ ManagerUnchanged
    /\ CacheFrame

CacheSet(key, value, ttl, ns) ==
    /\ LET r == SvcSet(key, value, ttl, ns)
       IN /\ Apply(r)
          /\ cret' = CRet("set", key, ns, r.out, r.val, 0)
          /\ written' = IF r.out = "ok" /\ r.val = "True"
                        THEN Put(written, Phys(key, ns),
                                 [value |-> value, at |-> now, ttl |-> ttl])
                        ELSE written
    /\ UNCHANGED <<cbackend, cache_client, cache_pinged>> /\ ManagerUnchanged
    /\ CacheFrame

CacheDelete(key, ns) ==
    /\ LET r == SvcDelete(key, ns)
       IN /\ Apply(r)
          /\ cret' = CRet("delete", key, ns, r.out, r.val, 0)
          /\ written' = IF r.out = "ok" THEN Drop(written, {Phys(key, ns)}) ELSE written
    /\ UNCHANGED <<cbackend, cache_client, cache_pinged>> /\ ManagerUnchanged
    /\ CacheFrame

CacheExists(key, ns) ==
    /\ LET r == SvcExists(key, ns)
       IN Apply(r) /\ cret' = CRet("exists", key, ns, r.out, r.val, 0)
    /\ UNCHANGED <<cbackend, cache_client, cache_pinged, written>> /\ ManagerUnchanged
    /\ CacheFrame

CacheClearNamespace(ns) ==
    /\ LET r == SvcClearNamespace(ns)
       IN /\ Apply(r)
          /\ cret' = CRet("clear_namespace", <<>>, ns, r.out, "None", r.count)
          /\ written' = IF r.out = "ok" THEN EmptyMap ELSE written
    /\ UNCHANGED <<cbackend, cache_client, cache_pinged>> /\ ManagerUnchanged
    /\ CacheFrame

-----------------------------------------------------------------------------
(* cache_service.py: CacheManager *)

Callers == 1..MaxCallers

\* no answer of get_cache_stats is at hand
NoStats == [out |-> "none", hit_count |-> 0, miss_count |-> 0,
            total_requests |-> 0, hit_ratio_percent |-> 0]

\* a caller's get_or_set: where it is, its arguments and its locals
Idle == [pc |-> "idle", key |-> <<>>, ns |-> <<>>, ttl |-> <<>>, cached |-> "None",
         new_value |-> "None"]

\* cached_value = await self.cache_service.get(key, namespace); callers are
\* interchangeable, so a new call takes the first free slot
GosGet(p, key, ttl, ns) ==
    /\ gos[p].pc = "idle"
    /\ \A q \in Callers : q < p => gos[q].pc # "idle"
    /\ calls.started < MaxCalls
    /\ LET r == SvcGet(key, ns)
       IN /\ Apply(r)
          /\ IF r.out = "ok"
             THEN /\ gos' = [gos EXCEPT ![p] =
                         [Idle EXCEPT !.pc = "count", !.key = key, !.ns = ns, !.ttl = ttl,
                                      !.cached = r.val]]
                  /\ calls' = [calls EXCEPT !.started = @ + 1]
             ELSE /\ gos' = gos
                  /\ calls' = [calls EXCEPT !.started = @ + 1, !.raised = @ + 1]
    /\ stats' = NoStats
    /\ UNCHANGED <<cbackend, cache_client, cache_pinged, hit_count, miss_count, cret, written>>
    /\ CacheFrame

\* a manager that takes every value read, None included, for a hit
IsHit_Always(cached_value) == cached_value = cached_value

\* the branch on the value read
IsHit(cached_value) == cached_value # "None"

\* if cached_value is not None: count a hit and return it; else count a miss and
\* call value_func, which returns v or raises (v = "Exception")
GosCount(p, v) ==
    /\ gos[p].pc = "count"
    /\ IF IsHit(gos[p].cached)
       THEN /\ hit_count' = hit_count + 1
            /\ miss_count' = miss_count
            /\ gos' = [gos EXCEPT ![p] = Idle]
            /\ calls' = [calls EXCEPT !.returned = @ + 1, !.last = gos[p].cached]
       ELSE /\ miss_count' = miss_count + 1
            /\ hit_count' = hit_count
            /\ IF v = "Exception"
               THEN /\ gos' = [gos EXCEPT ![p] = Idle]
                    /\ calls' = [calls EXCEPT !.computes = @ + 1, !.failed = @ + 1]
               ELSE /\ gos' = [gos EXCEPT ![p].pc = "set", ![p].new_value = v]
                    /\ calls' = [calls EXCEPT !.computes = @ + 1]
    /\ stats' = NoStats
    /\ UNCHANGED <<cbackend, cache, cache_client, cache_pinged, r_cache, cret, written>>
    /\ CacheFrame

\* await self.cache_service.set(key, new_value, ttl, namespace); return new_value
GosSet(p) ==
    /\ gos[p].pc = "set"
    /\ LET g == gos[p]
           r == SvcSet(g.key, g.new_value, g.ttl, g.ns)
       IN /\ Apply(r)
          /\ written' = IF r.out = "ok" /\ r.val = "True"
                        THEN Put(written, Phys(g.key, g.ns),
                                 [value |-> g.new_value, at |-> now, ttl |-> g.ttl])
                        ELSE written
          /\ gos' = [gos EXCEPT ![p] = Idle]
          /\ calls' = [calls EXCEPT !.returned = @ + 1, !.sets = @ + 1,
                                    !.last = g.new_value,
                                    !.raced = @ \/ \E q \in Callers \ {p} :
                                                      /\ gos[q].pc = "set"
                                                      /\ gos[q].key = g.key
                                                      /\ gos[q].ns = g.ns]
    /\ stats' = NoStats
    /\ UNCHANGED <<cbackend, cache_client, cache_pinged, hit_count, miss_count, cret>>
    /\ CacheFrame

\* truncation to two decimals instead of rounding
Round2_Truncated(num, den) == (10000 * num) \div den

\* round(x, 2) of x = num / den * 100, in hundredths of a percent
Round2(num, den) == (20000 * num + den) \div (2 * den)

\* get_cache_stats: the service's get_stats, then the counters under the lock
GetCacheStats ==
    /\ stats' = IF cbackend = "redis" /\ cache_client = "None"
                THEN [out |-> "RuntimeError", hit_count |-> 0, miss_count |-> 0,
                      total_requests |-> 0, hit_ratio_percent |-> 0]
                ELSE LET total_requests == hit_count + miss_count
                     IN [out |-> "ok", hit_count |-> hit_count, miss_count |-> miss_count,
                         total_requests |-> total_requests,
                         hit_ratio_percent |->
                             IF total_requests > 0 THEN Round2(hit_count, total_requests)
                             ELSE 0]
    /\ UNCHANGED <<cbackend, cache, cache_client, cache_pinged, r_cache, hit_count, miss_count, gos,
                   cret, written, calls>>
    /\ CacheFrame

-----------------------------------------------------------------------------
(* cache_service.py: CacheManager.cache_key_for_suggestion *)

\* str arguments are sequences of characters; an Optional[str] is <<>> for None
\* and <<s>> for the string s
Codes == {<<"a">>, <<"a", "|", "b">>}
Languages == {<<"b">>, <<"c">>, <<"b", "|", "c">>}
Contexts == {<<>>, <<<<>>>>, <<<<"c">>>>}

\* context or ''
ContextOr(context) == IF context = <<>> THEN <<>> ELSE context[1]

\* f"{code}|{language}|{context or ''}"
Content(code, language, context) ==
    code \o <<"|">> \o language \o <<"|">> \o ContextOr(context)

\* sha256(content.encode()).hexdigest(), taken as injective: the digest names
\* the content it was computed from
Sha256(content) == <<"sha256">> \o content

NoKey == [called |-> FALSE, args |-> <<<<>>, <<>>, <<>>>>, digest |-> <<>>]

CacheKeyForSuggestion(code, language, context) ==
    /\ k_prev' = k_last
    /\ k_last' = [called |-> TRUE, args |-> <<code, language, context>>,
                  digest |-> Sha256(Content(code, language, context))]
    /\ KeyFrame

-----------------------------------------------------------------------------
(* cache_service.py: the same call made on both cache services *)

\* what a call gave its caller: the error raised, or the value and the count
Outcome(r) == IF r.out # "ok" THEN <<r.out>> ELSE <<r.val, r.count>>

NoPair == [op |-> "none", mem |-> <<"None", 0>>, redis |-> <<"None", 0>>]

\* m is the call on the InMemoryCacheService, r the call on the RedisCacheService
\* after its connect() has returned
Both(op, m, r) ==
    /\ cache_pinged
    /\ cache' = m.mem /\ r_cache' = r.redis
    /\ pair' = [op |-> op, mem |-> Outcome(m), redis |-> Outcome(r)]
    /\ UNCHANGED <<cbackend, cache_client, cache_pinged, cret, written>> /\ ManagerUnchanged
    /\ UNCHANGED <<now, ticks, redis_up, svars, hvars, kvars, lvars, xvars>>

BothGet(key, ns) ==
    Both("get", MemCall(MemGet(cache, key, ns)), RedisCall(RedisGet(r_cache, key, ns), "None"))

BothSet(key, value, ttl, ns) ==
    Both("set", MemCall(MemSet(cache, key, value, ttl, ns)),
         RedisCall(RedisSet(r_cache, key, value, ttl, ns), "False"))

BothDelete(key, ns) ==
    Both("delete", MemCall(MemDelete(cache, key, ns)),
         RedisCall(RedisDelete(r_cache, key, ns), "False"))

BothExists(key, ns) ==
    Both("exists", MemCall(MemExists(cache, key, ns)),
         RedisCall(RedisExists(r_cache, key, ns), "False"))

BothClearNamespace(ns) ==
    LET m == MemClearNamespace(cache, ns)
        r == RedisClearNamespace(r_cache, ns)
    IN Both("clear_namespace", Svc("ok", "None", m.count, m.c, r_cache),
            IF CachePrecheck = "RuntimeError"
            THEN Svc("RuntimeError", "None", 0, cache, r_cache)
            ELSE IF CachePrecheck = "caught" THEN Svc("ok", "None", 0, cache, r_cache)
            ELSE Svc("ok", "None", r.count, cache, r.c))

-----------------------------------------------------------------------------
(* cache_service.py: InMemoryCacheService as the tests build and fill it *)

\* the size the test fixture asks for
max_size == 10

\* InMemoryCacheService(**kw): __init__ takes no argument besides self
InMemoryCacheServiceInit(kw) == IF kw = {} THEN "ok" ELSE "TypeError"

\* the keys of test_cache_size_limit: key_0 .. key_9, then new_key
TestKeys ==
    {<<"key_", d>> : d \in {"0", "1", "2", "3", "4", "5", "6", "7", "8", "9"}}
    \cup {<<"new_key">>}

\* the keys of the dict get_stats returns
MemStatsKeys == {"total_keys", "expired_keys", "active_keys", "memory_usage", "cache_type"}

\* get_stats of the in-memory service: total_keys is len(self.cache)
MemGetStats ==
    /\ cbackend = "memory"
    /\ cret' = CRet("get_stats", <<>>, <<>>, "ok", "None", Cardinality(DOMAIN cache))
    /\ UNCHANGED <<cbackend, cache, cache_client, cache_pinged, r_cache, written>>
    /\ ManagerUnchanged
    /\ CacheFrame

-----------------------------------------------------------------------------
(* health_service.py: check_overall_health *)

\* class HealthStatus(Enum): member name -> value
HealthStatus ==
    [HEALTHY |-> "healthy", DEGRADED |-> "degraded",
     UNHEALTHY |-> "unhealthy", UNKNOWN |-> "unknown"]

ComponentHealth(name, status) == [name |-> name, status |-> status]

\* what asyncio.gather(..., return_exceptions=True) holds for one check: the dict
\* the check returned, as its items in order, or the exception it raised
Returns(d) == [raised |-> FALSE, d |-> d]
Raises == [raised |-> TRUE, d |-> <<>>]

\* the results each check can produce
SystemResults ==
    {Returns(<<ComponentHealth("system", HealthStatus[s])>>) :
        s \in {"HEALTHY", "DEGRADED", "UNHEALTHY"}} \cup {Raises}
SessionManagerResults ==
    {Returns(<<ComponentHealth("session_manager", HealthStatus[s])>>) :
        s \in {"UNKNOWN", "HEALTHY", "UNHEALTHY"}} \cup {Raises}
CacheResults ==
    {Returns(<<ComponentHealth("cache", HealthStatus[s])>>) :
        s \in {"UNKNOWN", "HEALTHY", "UNHEALTHY"}} \cup {Raises}
ExternalResults ==
    {Returns(<<ComponentHealth("vscode", HealthStatus[s])>>) :
        s \in {"HEALTHY", "DEGRADED", "UNHEALTHY"}} \cup {Returns(<<>>), Raises}

\* dict.update(d): a name already present keeps its place, a new one is appended
RECURSIVE DictUpdate(_, _)
DictUpdate(components, d) ==
    IF d = <<>>
    THEN components
    ELSE LET e == Head(d)
             at == {i \in DOMAIN components : components[i].name = e.name}
         IN DictUpdate(IF at = {} THEN Append(components, e)
                       ELSE [i \in DOMAIN components |->
                                IF i \in at THEN e ELSE components[i]],
                       Tail(d))

\* a first loop that stops at the first check that raised
RECURSIVE Collect_AbortOnRaise(_, _)
Collect_AbortOnRaise(health_checks, components) ==
    IF health_checks = <<>> \/ Head(health_checks).raised
    THEN components
    ELSE Collect_AbortOnRaise(Tail(health_checks),
                              DictUpdate(components, Head(health_checks).d))

\* the first loop: exceptions are logged and skipped, dicts are merged
RECURSIVE Collect(_, _)
Collect(health_checks, components) ==
    IF health_checks = <<>>
    THEN components
    ELSE Collect(Tail(health_checks),
                 IF Head(health_checks).raised THEN components
                 ELSE DictUpdate(components, Head(health_checks).d))

\* a loop body that keeps the status of the component it looked at last
LoopBody_Latest(overall_status, component) ==
    IF component.status = HealthStatus.UNKNOWN THEN overall_status ELSE component.status

\* the if/elif of the second loop: overall_status after looking at one component
LoopBody(overall_status, component) ==
    IF component.status = HealthStatus.UNHEALTHY
    THEN HealthStatus.UNHEALTHY
    ELSE IF component.status = HealthStatus.DEGRADED
            /\ overall_status = HealthStatus.HEALTHY
    THEN HealthStatus.DEGRADED
    ELSE overall_status

\* the second loop over components.items(), with its break
RECURSIVE OverallLoop(_, _)
OverallLoop(components, overall_status) ==
    IF components = <<>>
    THEN overall_status
    ELSE IF Head(components).status = HealthStatus.UNHEALTHY
    THEN LoopBody(overall_status, Head(components))
    ELSE OverallLoop(Tail(components), LoopBody(overall_status, Head(components)))

CheckOverallHealth(system, session_manager, cache_check, external) ==
    /\ LET health_checks == <<system, session_manager, cache_check, external>>
           components == Collect(health_checks, <<>>)
       IN /\ h_components' = components
          /\ h_status' = OverallLoop(components, HealthStatus.HEALTHY)
          /\ h_checks' = health_checks
    /\ UNCHANGED <<h_initialized, h_response>>
    /\ HealthFrame

-----------------------------------------------------------------------------
(* server.py: initialize and GET /health *)

\* initialize(): _initialize_services connects the session manager, then the
\* cache service, and _initialized is set when nothing raised.  The in-memory
\* cache service has no connect method (AttributeError); a Redis connect raises
\* when the server does not answer.
Initialize ==
    /\ ~h_initialized
    /\ sbackend = cbackend
    /\ IF sbackend = "memory"
       THEN UNCHANGED <<h_initialized, sm_client, cleanup_task, cache_client, cache_pinged>>
       ELSE /\ sm_client' = "Redis"
            /\ cleanup_task' = IF redis_up THEN "Task" ELSE cleanup_task
            /\ cache_client' = IF redis_up THEN "Redis" ELSE cache_client
            /\ cache_pinged' = (cache_pinged \/ redis_up)
            /\ h_initialized' = redis_up
    /\ UNCHANGED <<sbackend, sessions, user_sessions, r_session, r_user, r_active, sret, sprev>>
    /\ UNCHANGED <<cbackend, cache, r_cache, hit_count, miss_count, gos, cret, written, calls,
                   stats>>
    /\ UNCHANGED <<now, ticks, redis_up, h_components, h_status, h_response, h_checks, kvars, pvars,
                   lvars, xvars>>

\* HealthCheck(...).__dict__: the fields of the dataclass; timestamp is a datetime
HealthCheck(status, details) ==
    [service |-> "mcp-server", status |-> status, timestamp |-> "datetime",
     details |-> details, response_time_ms |-> "float"]

\* get_health_status: unhealthy until initialize() has finished, healthy from then
\* on; no service is asked
GetHealthStatus ==
    IF ~h_initialized
    THEN HealthCheck("unhealthy", "error")
    ELSE HealthCheck("healthy", "initialized")

\* json.dumps(content), as JSONResponse renders its content: a datetime is not
\* serializable
JsonDumps(content) ==
    IF \E f \in DOMAIN content : content[f] = "datetime" THEN "TypeError" ELSE "ok"

\* JSONResponse(content=..., status_code=...): the response, or what render raised
JSONResponse(content, status_code) ==
    [out |-> JsonDumps(content), status |-> content.status, status_code |-> status_code]

NoResponse == [status |-> "none", status_code |-> 0, overall |-> "none"]

\* GET /health: the try block, then the except branch; overall is the status the
\* aggregation returned last, which the route does not read
HealthCheckRoute ==
    /\ LET health == GetHealthStatus
           status_code == IF health.status = "healthy" THEN 200 ELSE 503
           tried == JSONResponse(health, status_code)
           response == IF tried.out = "ok" THEN tried
                       ELSE JSONResponse([status |-> "unhealthy", error |-> "str"], 503)
       IN h_response' = [status |-> response.status, status_code |-> response.status_code,
                         overall |-> h_status]
    /\ UNCHANGED <<h_components, h_status, h_initialized, h_checks>>
    /\ HealthFrame

-----------------------------------------------------------------------------
(* Locks and suspension points.  A coroutine is the sequence of its lock
   acquisitions and releases, its accesses to a process-local map and the
   awaits at which it is suspended for a backend, for user code or for a timer;
   tasks run these sequences one instruction at a time, in any interleaving. *)

Tasks == 1..MaxTasks

Locks == {"_lock", "_stats_lock"}

Ins(i, a) == [i |-> i, a |-> a]

\* InMemoryCacheService get, set, delete, exists, clear_namespace, get_stats:
\* the whole body is inside "async with self._lock"
MemCacheOpCode == <<Ins("acquire", "_lock"), Ins("map", "cache"), Ins("release", "_lock")>>

\* RedisCacheService: every operation awaits the client, and takes no lock
RedisCacheOpCode == <<Ins("await", "backend")>>

CacheOpCode == IF cbackend = "memory" THEN MemCacheOpCode ELSE RedisCacheOpCode

\* "async with self._stats_lock": one counter update or one read of the counters
StatsLockCode ==
    <<Ins("acquire", "_stats_lock"), Ins("map", "counters"), Ins("release", "_stats_lock")>>

\* get_or_set when the cache holds the value: get, then hit_count += 1
GetOrSetHitCode == CacheOpCode \o StatsLockCode

GetOrSetMissCode_LockedCompute ==
    CacheOpCode
    \o <<Ins("acquire", "_stats_lock"), Ins("map", "counters"), Ins("await", "value_func"),
         Ins("release", "_stats_lock")>>
    \o CacheOpCode

\* get_or_set when it does not: get, miss_count += 1, value_func, set
GetOrSetMissCode ==
    CacheOpCode \o StatsLockCode \o <<Ins("await", "value_func")>> \o CacheOpCode

\* get_cache_stats: get_stats of the service first, then the counters
GetCacheStatsCode == CacheOpCode \o StatsLockCode

\* InMemorySessionManager: the first access of every operation to its maps (the
\* membership test of create_session, after which Session(...) raises; the
\* lookups of get_session, get_user_session and end_session; the iteration of
\* cleanup_expired_sessions); there is no lock.  RedisSessionManager awaits the
\* client.
SessionOpCode ==
    IF sbackend = "memory" THEN <<Ins("map", "sessions")>> ELSE <<Ins("await", "backend")>>

\* _periodic_cleanup (RedisSessionManager): sleep, then the sweep, which reads
\* the active set
PeriodicCleanupCode == <<Ins("await", "sleep"), Ins("await", "backend")>>

\* _periodic_health_checks: sleep, then the probes of check_overall_health on
\* the session manager (create_session) and on the cache service (set, get,
\* delete, get_stats)
PeriodicHealthChecksCode ==
    <<Ins("await", "sleep")>> \o SessionOpCode
    \o CacheOpCode \o CacheOpCode \o CacheOpCode \o CacheOpCode

Coroutines ==
    {"cache_op", "get_or_set_hit", "get_or_set_miss", "get_cache_stats", "session_op",
     "_periodic_cleanup", "_periodic_health_checks"}

Code(name) ==
    CASE name = "cache_op" -> CacheOpCode
      [] name = "get_or_set_hit" -> GetOrSetHitCode
      [] name = "get_or_set_miss" -> GetOrSetMissCode
      [] name = "get_cache_stats" -> GetCacheStatsCode
      [] name = "session_op" -> SessionOpCode
      [] name = "_periodic_cleanup" -> PeriodicCleanupCode
      [] name = "_periodic_health_checks" -> PeriodicHealthChecksCode

NoTask == [name |-> "none", pc |-> 0]

Running(t) == l_tasks[t].name # "none"

\* the instruction task t executes next
Current(t) == Code(l_tasks[t].name)[l_tasks[t].pc]

LockFrame == UNCHANGED <<now, ticks, redis_up, svars, cvars, hvars, kvars, pvars, xvars>>

\* a request handler or a background task is started; the sweep task exists in
\* the Redis session manager only
TaskStart(t, name) ==
    /\ ~Running(t)
    /\ name = "_periodic_cleanup" => sbackend = "redis"
    /\ l_tasks' = [l_tasks EXCEPT ![t] = [name |-> name, pc |-> 1]]
    /\ UNCHANGED l_locks
    /\ LockFrame

\* task t executes its next instruction; acquire waits until the lock is free
TaskStep(t) ==
    /\ Running(t)
    /\ LET ins == Current(t)
           last == l_tasks[t].pc = Len(Code(l_tasks[t].name))
       IN /\ CASE ins.i = "acquire" -> l_locks[ins.a] = 0 /\ l_locks' = [l_locks EXCEPT ![ins.a] = t]
                [] ins.i = "release" -> l_locks' = [l_locks EXCEPT ![ins.a] = 0]
                [] OTHER -> UNCHANGED l_locks
          /\ l_tasks' = [l_tasks EXCEPT ![t] = IF last THEN NoTask ELSE [@ EXCEPT !.pc = @ + 1]]
    /\ LockFrame

-----------------------------------------------------------------------------
(* health_service.py: the system check and the external-service probe *)

cpu_threshold == 80
memory_threshold == 85
disk_threshold == 90

\* the readings psutil can give, in percent, around the three thresholds
Readings == {0, 80, 81, 85, 86, 90, 91, 100}

SystemStatus_AtThreshold(cpu_percent, memory_percent, disk_percent) ==
    IF disk_percent >= disk_threshold THEN HealthStatus.UNHEALTHY
    ELSE IF cpu_percent >= cpu_threshold \/ memory_percent >= memory_threshold
    THEN HealthStatus.DEGRADED
    ELSE HealthStatus.HEALTHY

\* the three ifs of _check_system_health, in their order
SystemStatus(cpu_percent, memory_percent, disk_percent) ==
    LET s1 == IF cpu_percent > cpu_threshold THEN HealthStatus.DEGRADED
              ELSE HealthStatus.HEALTHY
        s2 == IF memory_percent > memory_threshold /\ s1 = HealthStatus.HEALTHY
              THEN HealthStatus.DEGRADED ELSE s1
    IN IF disk_percent > disk_threshold THEN HealthStatus.UNHEALTHY ELSE s2

\* messages.append(...) under each if: which thresholds the messages name
SystemMessages(cpu_percent, memory_percent, disk_percent) ==
    (IF cpu_percent > cpu_threshold THEN <<"High CPU usage">> ELSE <<>>)
    \o (IF memory_percent > memory_threshold THEN <<"High memory usage">> ELSE <<>>)
    \o (IF disk_percent > disk_threshold THEN <<"Critical disk usage">> ELSE <<>>)

\* "; ".join(messages) if messages else "System resources are healthy"
SystemMessage(messages) ==
    IF messages # <<>> THEN messages ELSE <<"System resources are healthy">>

NoSystemCheck ==
    [called |-> FALSE, raised |-> FALSE, cpu_percent |-> 0, memory_percent |-> 0,
     disk_percent |-> 0, status |-> "none", message |-> <<>>]

CheckFrame ==
    UNCHANGED <<now, ticks, redis_up, svars, cvars, hvars, kvars, pvars, lvars, qvars, bvars>>

\* _check_system_health with the metrics psutil returned
CheckSystemHealth(cpu_percent, memory_percent, disk_percent) ==
    /\ sys_last' = [called |-> TRUE, raised |-> FALSE, cpu_percent |-> cpu_percent,
                    memory_percent |-> memory_percent, disk_percent |-> disk_percent,
                    status |-> SystemStatus(cpu_percent, memory_percent, disk_percent),
                    message |-> SystemMessage(SystemMessages(cpu_percent, memory_percent,
                                                             disk_percent))]
    /\ UNCHANGED ext_last
    /\ CheckFrame

\* _check_system_health when _get_system_metrics raised: the except branch
CheckSystemHealthFailed ==
    /\ sys_last' = [NoSystemCheck EXCEPT !.called = TRUE, !.raised = TRUE,
                                         !.status = HealthStatus.UNHEALTHY,
                                         !.message = <<"Failed to get system metrics">>]
    /\ UNCHANGED ext_last
    /\ CheckFrame

\* what session.get("http://localhost:3000/health") can end in
Responses ==
    {[kind |-> "response", http |-> c] : c \in {200, 201, 204, 299, 404, 500}}
    \cup {[kind |-> "timeout", http |-> 0], [kind |-> "error", http |-> 0]}

\* _check_vscode_health: the status of the component it returns
VscodeStatus(r) ==
    IF r.kind = "response"
    THEN IF r.http = 200 THEN HealthStatus.HEALTHY ELSE HealthStatus.DEGRADED
    ELSE HealthStatus.UNHEALTHY

NoExternalCheck ==
    [via |-> "none", kind |-> "none", http |-> 0, components |-> <<>>]

CheckVscodeHealth(r) ==
    /\ ext_last' = [via |-> "_check_vscode_health", kind |-> r.kind, http |-> r.http,
                    components |-> <<ComponentHealth("vscode", VscodeStatus(r))>>]
    /\ UNCHANGED sys_last
    /\ CheckFrame

\* @dataclass class Config: its attributes
ConfigAttrs ==
    {"server", "redis", "vscode", "whatsapp", "copilot", "security", "monitoring"}

\* _check_external_services_health: the probe runs if hasattr(config, 'vscode_config')
CheckExternalServicesHealth(r) ==
    /\ ext_last' = IF "vscode_config" \in ConfigAttrs
                   THEN [via |-> "_check_external_services_health", kind |-> r.kind,
                         http |-> r.http,
                         components |-> <<ComponentHealth("vscode", VscodeStatus(r))>>]
                   ELSE [via |-> "_check_external_services_health", kind |-> "none",
                         http |-> 0, components |-> <<>>]
    /\ UNCHANGED sys_last
    /\ CheckFrame

-----------------------------------------------------------------------------
(* health_service.py: the probes of the session manager and of the cache service *)

Cycles == 1..MaxCycles

ProbeUser == "health_check_user"
test_key == <<"health_check_key">>
\* {"timestamp": datetime.utcnow().isoformat()}
test_value == "dict"
DefaultNamespace == <<"default">>

\* create_session(ProbeUser): what it returns or raises.  Session(...) raises, so
\* the only session it can return is one already stored for the user.
ProbeCreate ==
    IF sbackend = "memory"
    THEN IF MemExisting(ProbeUser) # {}
         THEN [out |-> "ok", s |-> MemExisting(ProbeUser)]
         ELSE [out |-> SessionInit(SessionKeywords), s |-> {}]
    ELSE LET existing == ParseUserSession(r_session, r_user, ProbeUser)
         IN IF Precheck # "ok" THEN [out |-> Precheck, s |-> {}]
            ELSE IF existing.out \notin {"ok", "None"} THEN [out |-> existing.out, s |-> {}]
            ELSE IF \E e \in existing.s : e.status = SessionStatusAttr("ACTIVE")
            THEN [out |-> "ok", s |-> existing.s]
            ELSE [out |-> SessionInit(SessionKeywords), s |-> {}]

\* the try block of _check_session_manager_health: create_session, get_session,
\* end_session; exc is the exception that left the block, "None" when none did
SessionProbe ==
    LET c == ProbeCreate
    IN IF c.out # "ok"
       THEN [exc |-> c.out, mem |-> MemState, redis |-> RedisState]
       ELSE LET sid == (CHOOSE x \in c.s : TRUE).session_id
            IN IF sbackend = "memory"
               THEN LET e == MemEnd(MemState, sid)
                    IN [exc |-> e.out, mem |-> e.S, redis |-> RedisState]
               ELSE LET e == RedisEnd(RedisState, sid)
                    IN [exc |-> e.out, mem |-> MemState, redis |-> e.S]

\* the status a probe reports: Unknown without a service, Unhealthy from the
\* except branch, Healthy at the end of the try block
ProbeStatus(configured, exc) ==
    IF ~configured THEN HealthStatus.UNKNOWN
    ELSE IF exc # "None" THEN HealthStatus.UNHEALTHY
    ELSE HealthStatus.HEALTHY

\* a comparison that lets a value that differs pass
Compare_Lenient(retrieved_value) == "None"

\* if retrieved_value != test_value: raise ValueError("Cache value mismatch")
Compare(retrieved_value) ==
    IF retrieved_value # test_value THEN "ValueError" ELSE "None"

NoCycle ==
    [pc |-> "idle", got |-> "None", exc |-> "None", cache |-> "none", session |-> "none",
     sexc |-> "None", served |-> TRUE]

\* the cache service answers as a cache store should: it is the process-local
\* one, or the Redis one connected to a server that answers
Serving == cbackend = "memory" \/ (cache_client # "None" /\ redis_up)

ProbeFrame == UNCHANGED <<now, ticks, redis_up, hvars, kvars, pvars, lvars, yvars, bvars>>

ProbeCacheUnchanged ==
    UNCHANGED <<cbackend, cache_client, cache_pinged, hit_count, miss_count, gos, cret, written,
                calls, stats>>

ProbeSessionUnchanged == UNCHANGED <<sbackend, sm_client, cleanup_task, sret, sprev>>

\* the cache probe of a process-local cache service: set, get and delete return
\* without suspending, so the probe runs in one piece
MemCacheProbe ==
    LET s1 == MemSet(cache, test_key, test_value, <<60>>, DefaultNamespace)
        g == MemGet(s1.c, test_key, DefaultNamespace)
        d == MemDelete(g.c, test_key, DefaultNamespace)
    IN [c |-> d.c, got |-> g.val, exc |-> Compare(g.val)]

\* a health cycle starts: the session probe runs, and the cache probe runs (in
\* memory), reports Unknown (no service) or makes its first call, set (Redis)
CycleStart(t) ==
    /\ q_cycles[t].pc \in {"idle", "done"}
    /\ LET sp == IF q_cfg.session_manager THEN SessionProbe
                 ELSE [exc |-> "None", mem |-> MemState, redis |-> RedisState]
           session == ProbeStatus(q_cfg.session_manager, sp.exc)
           begun == [NoCycle EXCEPT !.session = session, !.sexc = sp.exc]
       IN /\ sessions' = sp.mem.sessions /\ user_sessions' = sp.mem.user_sessions
          /\ r_session' = sp.redis.rs /\ r_user' = sp.redis.ru /\ r_active' = sp.redis.ra
          /\ IF ~q_cfg.cache_service
             THEN /\ q_cycles' = [q_cycles EXCEPT ![t] =
                        [begun EXCEPT !.pc = "done", !.cache = ProbeStatus(FALSE, "None")]]
                  /\ UNCHANGED <<cache, r_cache>>
             ELSE IF cbackend = "memory"
             THEN LET r == MemCacheProbe
                  IN /\ q_cycles' = [q_cycles EXCEPT ![t] =
                            [begun EXCEPT !.pc = "done", !.got = r.got, !.exc = r.exc,
                                          !.cache = ProbeStatus(TRUE, r.exc)]]
                     /\ cache' = r.c /\ UNCHANGED r_cache
             ELSE LET r == SvcSet(test_key, test_value, <<60>>, DefaultNamespace)
                  IN /\ Apply(r)
                     /\ q_cycles' = [q_cycles EXCEPT ![t] =
                            IF r.out # "ok"
                            THEN [begun EXCEPT !.pc = "done", !.exc = r.out,
                                               !.cache = ProbeStatus(TRUE, r.out),
                                               !.served = Serving]
                            ELSE [begun EXCEPT !.pc = "get", !.served = Serving]]
    /\ ProbeCacheUnchanged /\ ProbeSessionUnchanged /\ UNCHANGED q_cfg
    /\ ProbeFrame

\* retrieved_value = await self.cache_service.get(test_key)
CycleGet(t) ==
    /\ q_cycles[t].pc = "get"
    /\ LET r == SvcGet(test_key, DefaultNamespace)
       IN /\ Apply(r)
          /\ q_cycles' = [q_cycles EXCEPT ![t] =
                IF r.out # "ok"
                THEN [@ EXCEPT !.pc = "done", !.exc = r.out,
                               !.cache = ProbeStatus(TRUE, r.out), !.served = FALSE]
                ELSE [@ EXCEPT !.pc = "delete", !.got = r.val,
                               !.served = @ /\ Serving]]
    /\ ProbeCacheUnchanged /\ UNCHANGED <<svars, q_cfg>>
    /\ ProbeFrame

\* await self.cache_service.delete(test_key), then the comparison and the result
CycleDelete(t) ==
    /\ q_cycles[t].pc = "delete"
    /\ LET r == SvcDelete(test_key, DefaultNamespace)
           exc == IF r.out # "ok" THEN r.out ELSE Compare(q_cycles[t].got)
       IN /\ Apply(r)
          /\ q_cycles' = [q_cycles EXCEPT ![t] =
                [@ EXCEPT !.pc = "done", !.exc = exc, !.cache = ProbeStatus(TRUE, exc),
                          !.served = @ /\ Serving]]
    /\ ProbeCacheUnchanged /\ UNCHANGED <<svars, q_cfg>>
    /\ ProbeFrame

\* the cycle is cancelled while its cache probe awaits the client
CycleCancel(t) ==
    /\ q_cycles[t].pc \in {"get", "delete"}
    /\ q_cycles' = [q_cycles EXCEPT ![t] = NoCycle]
    /\ UNCHANGED <<svars, cvars, q_cfg>>
    /\ ProbeFrame

-----------------------------------------------------------------------------
(* The background loops: _periodic_health_checks and _periodic_cleanup *)

Services == {"health", "cleanup"}
Starts == 1..MaxStarts

NoLoop == [st |-> "none", cancel |-> FALSE, failed |-> FALSE]
NoStop == [st |-> "idle", on |-> 0]

\* the loop tasks of a service that have not finished
RunningLoops(svc) == {i \in Starts : b_loops[svc][i].st \in {"sleep", "cycle"}}

\* the index the next task of a service gets
NextLoop(svc) == {i \in Starts : /\ b_loops[svc][i].st = "none"
                                 /\ \A j \in Starts : j < i => b_loops[svc][j].st # "none"}

LoopFrame == UNCHANGED <<now, ticks, redis_up, cvars, kvars, pvars, lvars, yvars, qvars>>

\* a loop that ends on every exception
AfterRaise_Break(exc) == "done"

\* the except clauses of the two loops: CancelledError breaks, any other
\* exception is logged and the while True goes on with the next sleep
AfterRaise(exc) == IF exc = "CancelledError" THEN "done" ELSE "sleep"

\* asyncio.create_task(...): the new task, and the attribute names it
CreateTask(svc, i) ==
    /\ b_loops' = [b_loops EXCEPT ![svc][i] = [NoLoop EXCEPT !.st = "sleep"]]
    /\ b_task' = [b_task EXCEPT ![svc] = i]
    /\ b_stop' = [b_stop EXCEPT ![svc] = NoStop]

\* start_monitoring; the calls on a service are made one after another
StartMonitoring ==
    /\ b_stop["health"].st # "awaiting"
    /\ \E i \in NextLoop("health") : CreateTask("health", i)
    /\ UNCHANGED <<svars, hvars, b_healths>>
    /\ LoopFrame

\* RedisSessionManager.connect: the client, the ping, then the cleanup task
Connect ==
    /\ sbackend = "redis"
    /\ b_stop["cleanup"].st # "awaiting"
    /\ sm_client' = "Redis"
    /\ IF redis_up
       THEN /\ \E i \in NextLoop("cleanup") : CreateTask("cleanup", i)
            /\ cleanup_task' = "Task"
       ELSE UNCHANGED <<b_loops, b_task, b_stop, cleanup_task>>
    /\ Finish(Ret("connect", "-", 0, IF redis_up THEN "None" ELSE "ConnectionError", {}, 0))
    /\ RedisUnchanged /\ MemUnchanged /\ UNCHANGED <<sbackend, hvars, b_healths>>
    /\ LoopFrame

\* await asyncio.sleep(...) returns
LoopWake(svc, i) ==
    /\ b_loops[svc][i].st = "sleep" /\ ~b_loops[svc][i].cancel
    /\ b_loops' = [b_loops EXCEPT ![svc][i].st = "cycle"]
    /\ UNCHANGED <<svars, hvars, b_task, b_stop, b_healths>>
    /\ LoopFrame

\* the results of the checks in the cycles of the loop
LoopCacheResults == {Returns(<<ComponentHealth("cache", HealthStatus.HEALTHY)>>), Raises}

\* one iteration of _periodic_health_checks after the sleep: check_overall_health,
\* the warnings, then component_healths.update(...); raised: an exception left
\* the try block before the update
PeriodicHealthCheck(i, cache_check, raised) ==
    /\ b_loops["health"][i].st = "cycle" /\ ~b_loops["health"][i].cancel
    /\ IF raised
       THEN /\ b_loops' = [b_loops EXCEPT !["health"][i] =
                                [@ EXCEPT !.st = AfterRaise("Exception"), !.failed = TRUE]]
            /\ UNCHANGED <<hvars, b_healths>>
       ELSE LET health_checks ==
                    <<Returns(<<ComponentHealth("system", HealthStatus.HEALTHY)>>),
                      Returns(<<ComponentHealth("session_manager", HealthStatus.UNHEALTHY)>>),
                      cache_check, Returns(<<>>)>>
                components == Collect(health_checks, <<>>)
            IN /\ h_components' = components
               /\ h_status' = OverallLoop(components, HealthStatus.HEALTHY)
               /\ h_checks' = health_checks
               /\ b_healths' = DictUpdate(b_healths, components)
               /\ b_loops' = [b_loops EXCEPT !["health"][i] =
                                [@ EXCEPT !.st = "sleep", !.failed = FALSE]]
               /\ UNCHANGED <<h_initialized, h_response>>
    /\ UNCHANGED <<svars, b_task, b_stop>>
    /\ LoopFrame

\* one iteration of _periodic_cleanup after the sleep: cleanup_expired_sessions
PeriodicCleanup(i) ==
    /\ b_loops["cleanup"][i].st = "cycle" /\ ~b_loops["cleanup"][i].cancel
    /\ IF Precheck # "ok"
       THEN /\ Finish(Ret("cleanup_expired_sessions", "-", 0, Precheck, {}, 0))
            /\ RedisUnchanged
            /\ b_loops' = [b_loops EXCEPT !["cleanup"][i] =
                                [@ EXCEPT !.st = AfterRaise(Precheck), !.failed = TRUE]]
       ELSE \E order \in Orders(r_active) :
              LET e == RedisSweep(RedisState, order, now - session_ttl, 0)
              IN /\ r_session' = e.S.rs
                 /\ r_user' = e.S.ru
                 /\ r_active' = e.S.ra
                 /\ Finish(Ret("cleanup_expired_sessions", "-", 0, e.out, {}, e.count))
                 /\ b_loops' = [b_loops EXCEPT !["cleanup"][i] =
                                    IF e.out = "ok"
                                    THEN [@ EXCEPT !.st = "sleep", !.failed = FALSE]
                                    ELSE [@ EXCEPT !.st = AfterRaise(e.out), !.failed = TRUE]]
    /\ MemUnchanged /\ UNCHANGED <<sbackend, sm_client, cleanup_task>>
    /\ UNCHANGED <<hvars, b_task, b_stop, b_healths>>
    /\ LoopFrame

\* the cancelled task is resumed with CancelledError at the await it is in
LoopCancelled(svc, i) ==
    /\ b_loops[svc][i].st \in {"sleep", "cycle"} /\ b_loops[svc][i].cancel
    /\ b_loops' = [b_loops EXCEPT ![svc][i].st = AfterRaise("CancelledError")]
    /\ UNCHANGED <<svars, hvars, b_task, b_stop, b_healths>>
    /\ LoopFrame

\* stop_monitoring / disconnect up to the await: the task the attribute names
\* is cancelled, no other
StopCall(svc) ==
    /\ svc = "cleanup" => sbackend = "redis"
    /\ b_stop[svc].st # "awaiting"
    /\ IF b_task[svc] = 0
       THEN b_stop' = [b_stop EXCEPT ![svc] = [st |-> "returned", on |-> 0]] /\ UNCHANGED b_loops
       ELSE /\ b_stop' = [b_stop EXCEPT ![svc] = [st |-> "awaiting", on |-> b_task[svc]]]
            /\ b_loops' = [b_loops EXCEPT ![svc][b_task[svc]].cancel =
                                @ \/ b_loops[svc][b_task[svc]].st # "done"]
    /\ UNCHANGED <<svars, hvars, b_task, b_healths>>
    /\ LoopFrame

\* the awaited task is done: stop_monitoring / disconnect returns
StopReturn(svc) ==
    /\ b_stop[svc].st = "awaiting"
    /\ b_loops[svc][b_stop[svc].on].st = "done"
    /\ b_stop' = [b_stop EXCEPT ![svc].st = "returned"]
    /\ UNCHANGED <<svars, hvars, b_task, b_loops, b_healths>>
    /\ LoopFrame

-----------------------------------------------------------------------------
(* The clock and the Redis server *)

SessionSteps == {1, session_ttl}
CacheSteps == {1, default_ttl}
ManagerSteps == {1}

\* time passes; Redis drops the keys whose expiry time has passed
Tick(d) ==
    /\ ticks < MaxTicks
    /\ ticks' = ticks + 1
    /\ now' = now + d
    /\ r_session' = Drop(r_session, {k \in DOMAIN r_session : r_session[k].exp < now + d})
    /\ r_user' = Drop(r_user, {k \in DOMAIN r_user : r_user[k].exp < now + d})
    /\ r_cache' = Drop(r_cache, {k \in DOMAIN r_cache : r_cache[k].exp < now + d})

SessionTick(d) ==
    /\ Tick(d)
    /\ UNCHANGED <<redis_up, sbackend, sessions, user_sessions, sm_client, cleanup_task, r_active,
                   sret, sprev>>
    /\ UNCHANGED <<cbackend, cache, cache_client, cache_pinged, hit_count, miss_count, gos, cret,
                   written, calls, stats>>
    /\ UNCHANGED <<hvars, kvars, pvars, lvars, xvars>>

CacheTick(d) ==
    /\ Tick(d)
    /\ UNCHANGED <<redis_up, sbackend, sessions, user_sessions, sm_client, cleanup_task, r_active,
                   sret, sprev>>
    /\ UNCHANGED <<cbackend, cache, cache_client, cache_pinged, hit_count, miss_count, gos, cret,
                   written, calls, stats>>
    /\ UNCHANGED <<hvars, kvars, pvars, lvars, xvars>>

\* the Redis server stops answering, or answers again
RedisFlip ==
    /\ sbackend = "redis" \/ cbackend = "redis"
    /\ redis_up' = ~redis_up
    /\ UNCHANGED <<now, ticks, svars, cvars, hvars, kvars, pvars, lvars, xvars>>

-----------------------------------------------------------------------------
(* Specifications *)

InitSession ==
    /\ sessions = EmptyMap /\ user_sessions = EmptyMap
    /\ sm_client = "None" /\ cleanup_task = "None"
    /\ r_session = EmptyMap /\ r_user = EmptyMap /\ r_active = {}
    /\ sret = NoCall /\ sprev = NoCall

InitCache ==
    /\ cache = EmptyMap /\ r_cache = EmptyMap
    /\ cache_client = "None" /\ cache_pinged = FALSE
    /\ hit_count = 0 /\ miss_count = 0
    /\ gos = [p \in Callers |-> Idle]
    /\ cret = NoCacheCall
    /\ written = EmptyMap
    /\ calls = [started |-> 0, returned |-> 0, raised |-> 0, failed |-> 0,
                computes |-> 0, sets |-> 0, last |-> "None", raced |-> FALSE]
    /\ stats = NoStats

InitHealth ==
    /\ h_components = <<>> /\ h_status = "none"
    /\ h_initialized = FALSE /\ h_response = NoResponse
    /\ h_checks = <<>>

InitKeys == k_prev = NoKey /\ k_last = NoKey

InitPair == pair = NoPair

InitLocks == l_tasks = [t \in Tasks |-> NoTask] /\ l_locks = [l \in Locks |-> 0]

InitChecks == sys_last = NoSystemCheck /\ ext_last = NoExternalCheck

InitProbes == q_cycles = [t \in Cycles |-> NoCycle]

InitLoops ==
    /\ b_task = [svc \in Services |-> 0]
    /\ b_loops = [svc \in Services |-> [i \in Starts |-> NoLoop]]
    /\ b_stop = [svc \in Services |-> NoStop]
    /\ b_healths = <<>>

InitServices ==
    /\ now = 0 /\ ticks = 0 /\ redis_up = TRUE
    /\ InitSession /\ InitCache /\ InitHealth /\ InitKeys /\ InitPair /\ InitLocks
    /\ InitChecks /\ InitProbes /\ InitLoops

\* server.py hands the health service a session manager and a cache service
InitCommon == InitServices /\ q_cfg = [session_manager |-> TRUE, cache_service |-> TRUE]

\* the session store, either backend
SessionStoreInit == InitCommon /\ sbackend \in {"memory", "redis"} /\ cbackend = "memory"

SessionStoreNext ==
    \/ \E u \in Users, w \in Workspaces : MemCreateSession(u, w)
    \/ \E sid \in SessionIds : MemGetSession(sid)
    \/ \E u \in Users : MemGetUserSession(u)
    \/ \E o \in UpdateArgs({sessions[i] : i \in DOMAIN sessions}) : MemUpdateSession(o)
    \/ \E sid \in SessionIds : MemEndSession(sid)
    \/ MemCleanupExpiredSessions
    \/ RedisConnect
    \/ \E u \in Users, w \in Workspaces : RedisCreateSession(u, w)
    \/ \E sid \in SessionIds : RedisGetSession(sid)
    \/ \E u \in Users : RedisGetUserSession(u)
    \/ \E o \in UpdateArgs(UNION {ParseSession(r_session, i).s : i \in DOMAIN r_session}) :
                RedisUpdateSession(o)
    \/ \E sid \in SessionIds : RedisEndSession(sid)
    \/ RedisCleanupExpiredSessions
    \/ RedisGetActiveSessionCount
    \/ RedisGetAllActiveSessions
    \/ \E d \in SessionSteps : SessionTick(d)
    \/ RedisFlip

SpecSession == SessionStoreInit /\ [][SessionStoreNext]_vars

\* the cache store, either backend, called directly
CacheStoreInit == InitCommon /\ cbackend \in {"memory", "redis"} /\ sbackend = "memory"

CacheStoreNext ==
    \/ CacheConnect
    \/ \E kn \in StorePairs : CacheGet(kn[1], kn[2])
    \/ \E kn \in StorePairs, v \in Values, ttl \in TtlArgs : CacheSet(kn[1], v, ttl, kn[2])
    \/ \E kn \in StorePairs : CacheDelete(kn[1], kn[2])
    \/ \E kn \in StorePairs : CacheExists(kn[1], kn[2])
    \/ \E ns \in Namespaces : CacheClearNamespace(ns)
    \/ \E d \in CacheSteps : CacheTick(d)
    \/ RedisFlip

SpecStore == CacheStoreInit /\ [][CacheStoreNext]_vars

\* the cache manager over the selected cache store
GosTtlArgs == {<<>>, <<1>>}
GosValues == {"None", "str"}
GosKeys == {<<"c">>}
GosNamespaces == {<<"a">>}

ManagerNext ==
    \/ CacheConnect
    \/ \E p \in Callers, key \in GosKeys, ttl \in GosTtlArgs, ns \in GosNamespaces :
                GosGet(p, key, ttl, ns)
    \/ \E p \in Callers, v \in GosValues \cup {"Exception"} : GosCount(p, v)
    \/ \E p \in Callers : GosSet(p)
    \/ GetCacheStats
    \/ \E d \in ManagerSteps : CacheTick(d)

SpecManager == CacheStoreInit /\ [][ManagerNext]_vars

\* one health cycle after another
HealthInit == InitCommon /\ sbackend = "memory" /\ cbackend = "memory"

HealthNext ==
    \E system \in SystemResults, session_manager \in SessionManagerResults,
       cache_check \in CacheResults, external \in ExternalResults :
        CheckOverallHealth(system, session_manager, cache_check, external)

SpecHealth == HealthInit /\ [][HealthNext]_vars

\* the server: initialize, health cycles and requests of GET /health; both stores
\* are in memory or both on Redis, as _initialize_services selects them
ServerInit == InitCommon /\ sbackend \in {"memory", "redis"} /\ cbackend = sbackend

ServerNext ==
    \/ Initialize
    \/ \E system \in SystemResults, session_manager \in {Raises} \cup SessionManagerResults,
          cache_check \in {Raises}, external \in {Returns(<<>>)} :
           CheckOverallHealth(system, session_manager, cache_check, external)
    \/ HealthCheckRoute
    \/ RedisFlip

SpecServer == ServerInit /\ [][ServerNext]_vars

\* cache_key_for_suggestion, called again and again
KeysInit == InitCommon /\ sbackend = "memory" /\ cbackend = "memory"

KeysNext ==
    \E code \in Codes, language \in Languages, context \in Contexts :
        CacheKeyForSuggestion(code, language, context)

SpecKeys == KeysInit /\ [][KeysNext]_vars

\* the two cache services side by side, given the same calls at the same times;
\* cbackend names the one that has to connect
BothInit == InitCommon /\ cbackend = "redis" /\ sbackend = "memory"

BothNext ==
    \/ CacheConnect
    \/ \E kn \in StorePairs : BothGet(kn[1], kn[2])
    \/ \E kn \in StorePairs, v \in Values, ttl \in TtlArgs : BothSet(kn[1], v, ttl, kn[2])
    \/ \E kn \in StorePairs : BothDelete(kn[1], kn[2])
    \/ \E kn \in StorePairs : BothExists(kn[1], kn[2])
    \/ \E ns \in Namespaces : BothClearNamespace(ns)
    \/ \E d \in CacheSteps : CacheTick(d)

SpecBoth == BothInit /\ [][BothNext]_vars

\* the in-memory cache service filled the way test_cache_size_limit fills it
LimitInit == InitCommon /\ cbackend = "memory" /\ sbackend = "memory"

LimitNext ==
    \/ \E key \in TestKeys : CacheSet(key, "str", <<>>, <<"default">>)
    \/ MemGetStats

SpecLimit == LimitInit /\ [][LimitNext]_vars

\* the coroutines of the cache, of the session manager and of the two
\* background loops, interleaved instruction by instruction
LocksInit == InitCommon /\ sbackend \in {"memory", "redis"} /\ cbackend \in {"memory", "redis"}

LocksNext ==
    \/ \E t \in Tasks, name \in Coroutines : TaskStart(t, name)
    \/ \E t \in Tasks : TaskStep(t)

SpecLocks == LocksInit /\ [][LocksNext]_vars

\* the cache store called with keys and namespaces that contain the separator
NamesInit == InitCommon /\ sbackend = "memory" /\ cbackend \in {"memory", "redis"}

NamesNext ==
    \/ CacheConnect
    \/ \E kn \in NamePairs : CacheGet(kn[1], kn[2])
    \/ \E kn \in NamePairs, v \in Values : CacheSet(kn[1], v, <<>>, kn[2])
    \/ \E kn \in NamePairs : CacheDelete(kn[1], kn[2])
    \/ \E ns \in Namespaces : CacheClearNamespace(ns)

SpecNames == NamesInit /\ [][NamesNext]_vars

\* the system check and the external-service probe, called with every reading
\* and every outcome of the request
ChecksInit == InitCommon /\ sbackend = "memory" /\ cbackend = "memory"

ChecksNext ==
    \/ \E cpu_percent \in Readings, memory_percent \in Readings, disk_percent \in Readings :
            CheckSystemHealth(cpu_percent, memory_percent, disk_percent)
    \/ CheckSystemHealthFailed
    \/ \E r \in Responses : CheckVscodeHealth(r)
    \/ \E r \in Responses : CheckExternalServicesHealth(r)

SpecChecks == ChecksInit /\ [][ChecksNext]_vars

\* health cycles probing the session manager and the cache service while callers
\* use the cache and the Redis server comes and goes
ProbesInit ==
    /\ InitServices
    /\ q_cfg \in [session_manager : BOOLEAN, cache_service : BOOLEAN]
    /\ sbackend \in {"memory", "redis"} /\ cbackend = sbackend

ProbesNext ==
    \/ \E t \in Cycles : CycleStart(t)
    \/ \E t \in Cycles : CycleGet(t)
    \/ \E t \in Cycles : CycleDelete(t)
    \/ \E t \in Cycles : CycleCancel(t)
    \/ CacheConnect
    \/ RedisConnect
    \/ \E kn \in StorePairs : CacheSet(kn[1], "str", <<>>, kn[2])
    \/ RedisFlip

SpecProbes == ProbesInit /\ [][ProbesNext]_vars

\* the two background loops, started and stopped any number of times
LoopsInit == InitCommon /\ sbackend = "redis" /\ cbackend = "redis"

LoopsNext ==
    \/ StartMonitoring
    \/ Connect
    \/ \E svc \in Services, i \in Starts : LoopWake(svc, i)
    \/ \E i \in Starts, cache_check \in LoopCacheResults, raised \in BOOLEAN :
            PeriodicHealthCheck(i, cache_check, raised)
    \/ \E i \in Starts : PeriodicCleanup(i)
    \/ \E svc \in Services, i \in Starts : LoopCancelled(svc, i)
    \/ \E svc \in Services : StopCall(svc)
    \/ \E svc \in Services : StopReturn(svc)
    \/ RedisFlip

SpecLoops == LoopsInit /\ [][LoopsNext]_vars

\* each service started once, then stopped at any time
OneLoopNext ==
    \/ b_task["health"] = 0 /\ StartMonitoring
    \/ b_task["cleanup"] = 0 /\ Connect
    \/ \E svc \in Services, i \in Starts : LoopWake(svc, i)
    \/ \E i \in Starts, cache_check \in LoopCacheResults, raised \in BOOLEAN :
            PeriodicHealthCheck(i, cache_check, raised)
    \/ \E i \in Starts : PeriodicCleanup(i)
    \/ \E svc \in Services, i \in Starts : LoopCancelled(svc, i)
    \/ \E svc \in Services : StopCall(svc)
    \/ \E svc \in Services : StopReturn(svc)
    \/ RedisFlip

\* the event loop resumes a task whose sleep is over
SpecLoopsFair ==
    /\ LoopsInit /\ [][OneLoopNext]_vars
    /\ \A svc \in Services, i \in Starts : WF_vars(LoopWake(svc, i))

Spec == SpecStore

-----------------------------------------------------------------------------
(* Session store: what the stored state and the last two calls show *)

\* the stored sessions of the selected backend, as records with id, user and status
StoredSessions ==
    IF sbackend = "memory"
    THEN {[id |-> i, user |-> sessions[i].whatsapp_user, status |-> sessions[i].status] :
            i \in DOMAIN sessions}
    ELSE {[id |-> i, user |-> r_session[i].h.whatsapp_user, status |-> r_session[i].h.status] :
            i \in Live(r_session)}

\* the user index of the selected backend, as a set of <<user, id>>
UserIndex ==
    IF sbackend = "memory"
    THEN {<<u, user_sessions[u]>> : u \in DOMAIN user_sessions}
    ELSE {<<u, r_user[u].v>> : u \in Live(r_user)}

\* a call the backend answered: it did not fail on the connection
Answered(r) == r.out \notin {"RuntimeError", "ConnectionError"}

\* C1 (one Active session per user): no user has two stored sessions whose status
\* is Active.
C1_OneActivePerUser ==
    \A u \in Users :
        Cardinality({r \in StoredSessions :
                        r.user = u /\ r.status = SessionStatus.ACTIVE}) <= 1

\* C2 (the user index mirrors the Active sessions): the index maps u to s exactly
\* when the stored session s belongs to u and is Active.
C2_IndexIffActive ==
    \A u \in Users, i \in SessionIds :
        <<u, i>> \in UserIndex
            <=> [id |-> i, user |-> u, status |-> SessionStatus.ACTIVE] \in StoredSessions

\* a state in which a session is stored; C1 and C2 say something only there
SomeSessionStored == StoredSessions # {}

\* C3 (create_session is idempotent), as the specification states it: when
\* create_session(u) is called twice in a row, both calls return a session, the
\* second returns the session the first returned (same id, same fields), and every
\* stored session it returned is the one in the store.
C3_SameSessionTwice ==
    (/\ sprev.op = "create_session" /\ sret.op = "create_session"
     /\ sprev.user = sret.user
     /\ Answered(sprev) /\ Answered(sret))
    => /\ sprev.out = "ok" /\ sret.out = "ok"
       /\ sret.session = sprev.session
       /\ \A x \in sret.session :
            [id |-> x.session_id, user |-> x.whatsapp_user, status |-> x.status]
                \in StoredSessions

\* C4 (end_session leaves an ended, unindexed record), on the scenario of the
\* specification: create_session(u) gives an existing session; after end_session of
\* its id the record is still stored with a status that is not Active, u has no
\* entry in the user index, and the id is not in the active set.
C4_EndedAfterEnd ==
    (/\ sprev.op = "create_session" /\ sret.op = "end_session"
     /\ Answered(sprev) /\ Answered(sret))
    => /\ sprev.out = "ok"
       /\ \A x \in sprev.session :
            x.session_id = sret.sid =>
               /\ sret.out = "None"
               /\ \E r \in StoredSessions :
                     r.id = sret.sid /\ r.status # SessionStatus.ACTIVE
               /\ \A e \in UserIndex : e[1] # x.whatsapp_user
               /\ sret.sid \notin r_active

\* C5 (the sweep reaps expired sessions), on the scenario of the specification: a
\* session created by create_session more than session_ttl seconds before the sweep
\* and not touched since is counted by cleanup_expired_sessions and is no longer
\* Active, indexed or in the active set afterwards.
C5_SweepReaps ==
    (/\ sprev.op = "create_session" /\ sret.op = "cleanup_expired_sessions"
     /\ sprev.at + session_ttl < sret.at
     /\ Answered(sprev) /\ Answered(sret))
    => /\ sprev.out = "ok" /\ sret.out = "ok"
       /\ sret.count >= 1
       /\ \A x \in sprev.session :
            /\ \A r \in StoredSessions :
                  r.id = x.session_id => r.status # SessionStatus.ACTIVE
            /\ \A e \in UserIndex : e[2] # x.session_id
            /\ x.session_id \notin r_active


-----------------------------------------------------------------------------
(* Cache store: what the last call shows against the last successful set *)

\* the time at which the entry written by w expires
ExpiryOf(w) == w.at + TtlOr(w.ttl)

\* C6 (set, then get before and after the TTL): when a get or an exists of a pair
\* is answered by the backend and the last successful set of that pair, with a
\* ttl that is None or positive and with no delete or clear since, wrote v, then a
\* get before the expiry returns v, and after the expiry a get returns None and an
\* exists returns False.
C6_GetAfterSet ==
    \A kn \in StorePairs :
        (/\ cret.op \in {"get", "exists"} /\ cret.key = kn[1] /\ cret.ns = kn[2]
         /\ cret.out = "ok" /\ cret.up
         /\ Phys(kn[1], kn[2]) \in DOMAIN written
         /\ LET w == written[Phys(kn[1], kn[2])] IN w.ttl = <<>> \/ w.ttl[1] > 0)
        => LET w == written[Phys(kn[1], kn[2])]
           IN /\ (cret.op = "get" /\ cret.at < ExpiryOf(w)) => cret.val = w.value
              /\ (cret.op = "get" /\ cret.at > ExpiryOf(w)) => cret.val = "None"
              /\ (cret.op = "exists" /\ cret.at > ExpiryOf(w)) => cret.val = "False"

\* the same statement for the process-local backend alone
C6_GetAfterSetInMemory == cbackend = "memory" => C6_GetAfterSet

\* the methods of the cache store that read or write entries
StoreOps == {"get", "set", "delete", "exists", "clear_namespace"}

\* C10 (not connected is a hard error): while no connect() of the Redis cache
\* service has returned normally, every call of a store method raises RuntimeError
\* and leaves the keyspace empty.
C10_NotConnectedRaises ==
    (cbackend = "redis" /\ ~cache_pinged)
    => /\ cret.op \in StoreOps => cret.out = "RuntimeError"
       /\ r_cache = EmptyMap

-----------------------------------------------------------------------------
(* Cache manager *)

\* the ttl a set applies when it is given ttl
EffectiveTtl(ttl) == IF ttl = <<>> THEN default_ttl ELSE ttl[1]

\* the entry of (key, ns) in the selected store after a step holds value until
\* expiry
HoldsAfter(key, ns, value, expiry) ==
    IF cbackend = "memory"
    THEN /\ MemMakeKey(key, ns) \in DOMAIN cache'
         /\ cache'[MemMakeKey(key, ns)].value = value
         /\ cache'[MemMakeKey(key, ns)].expires_at = expiry
    ELSE /\ RedisMakeKey(key, ns) \in DOMAIN r_cache'
         /\ OfJson(r_cache'[RedisMakeKey(key, ns)].v.value) = value
         /\ r_cache'[RedisMakeKey(key, ns)].exp = expiry

C8_Accounting ==
    [][/\ hit_count' + miss_count' + Cardinality({p \in Callers : gos'[p].pc = "count"})
            = calls'.started - calls'.raised
       /\ (stats' # stats /\ stats'.out = "ok")
          => /\ stats'.hit_count = hit_count /\ stats'.miss_count = miss_count
             /\ stats'.total_requests = hit_count + miss_count
             /\ stats'.total_requests = 0 => stats'.hit_ratio_percent = 0
             /\ stats'.total_requests > 0 =>
                   LET d == 2 * stats'.hit_ratio_percent * stats'.total_requests
                            - 20000 * stats'.hit_count
                   IN d <= stats'.total_requests /\ -d < stats'.total_requests
             /\ (stats'.hit_count = 1 /\ stats'.miss_count = 1)
                   => stats'.hit_ratio_percent = 5000]_vars

\* two calls have returned, one a miss and one a hit, and get_cache_stats said so
C8_OneMissOneHit ==
    /\ calls.started = 2 /\ calls.returned = 2
    /\ stats.out = "ok" /\ stats.hit_count = 1 /\ stats.miss_count = 1
    /\ stats.total_requests = 2 /\ stats.hit_ratio_percent = 5000

-----------------------------------------------------------------------------
(* Health aggregation *)

\* the statuses of the components of the last cycle
ComponentStatuses == {h_components[i].status : i \in DOMAIN h_components}

\* the worst of a set of statuses under Unhealthy > Degraded > Healthy, Unknown
\* left out, Healthy when nothing is left
Worst(S) ==
    IF "unhealthy" \in S THEN "unhealthy"
    ELSE IF "degraded" \in S THEN "degraded"
    ELSE "healthy"

\* the components of the last cycle listed in the order q
Reordered(q) == [i \in DOMAIN h_components |-> h_components[q[i]]]

\* C9 (overall health is the worst component status): the status a cycle returned
\* is Unhealthy when a component is Unhealthy, else Degraded when one is Degraded,
\* else Healthy, Unknown components and an empty cycle included; the loop gives
\* the same status for every order of the same components.
C9_WorstStatus ==
    h_status # "none"
    => /\ h_status = Worst(ComponentStatuses)
       /\ \A q \in Orders(DOMAIN h_components) :
            OverallLoop(Reordered(q), HealthStatus.HEALTHY) = h_status

\* a cycle with a Healthy, a Degraded and an Unknown component, the Degraded one
\* not the last, that returned Degraded
C9_DegradedAmongOthers ==
    /\ h_status = "degraded"
    /\ ComponentStatuses = {"healthy", "degraded", "unknown"}
    /\ h_components[Len(h_components)].status = "healthy"

-----------------------------------------------------------------------------
(* Session store: errors, update_session and create_session *)

\* C11 (soft errors stay inside the stores): once connect() of the Redis session
\* manager has returned, no later operation of the session store hands the error
\* of a failing backend call to its caller.
C11_NoErrorCrosses ==
    (sbackend = "redis" /\ cleanup_task = "Task" /\ sret.op \notin {"none", "connect"})
    => sret.out # "ConnectionError"

\* the record of session x as the selected backend stores it carries x's fields
StoredAs(x) ==
    IF sbackend = "memory"
    THEN x.session_id \in DOMAIN sessions /\ sessions[x.session_id] = x
    ELSE /\ x.session_id \in Live(r_session)
         /\ LET h == r_session[x.session_id].h
            IN /\ h.last_activity = x.last_activity
               /\ h.suggestions_count = x.suggestions_count
               /\ h.commands_executed = x.commands_executed
               /\ h.workspace = WorkspaceField(x.workspace)

\* C12 (update_session persists and bumps last_activity): an update_session the
\* backend answered returns normally, and right after it the store holds the
\* caller's session with its updated fields and with last_activity set to the
\* time of the call.
C12_UpdatePersists ==
    (sret.op = "update_session" /\ Answered(sret) /\ now = sret.at)
    => /\ sret.out = "None"
       /\ sret.session # {}
       /\ \A x \in sret.session : x.last_activity = sret.at /\ StoredAs(x)

\* C13 (create_session registers the session): a create_session the backend
\* answered returns an Active session of the user that is stored under its id,
\* indexed under the user and, on Redis, in the active set; a session it created
\* has suggestion count 0, no commands, and on Redis both keys expire session_ttl
\* after the call.
C13_CreateRegisters ==
    (sret.op = "create_session" /\ Answered(sret) /\ now = sret.at)
    => /\ sret.out = "ok"
       /\ \E x \in sret.session :
            /\ x.whatsapp_user = sret.user /\ x.status = SessionStatus.ACTIVE
            /\ [id |-> x.session_id, user |-> sret.user, status |-> SessionStatus.ACTIVE]
                  \in StoredSessions
            /\ <<sret.user, x.session_id>> \in UserIndex
            /\ sbackend = "redis" => x.session_id \in r_active
            /\ sret.sid # 0 =>
                  /\ x.session_id = sret.sid
                  /\ x.suggestions_count = 0 /\ x.commands_executed = <<>>
                  /\ sbackend = "redis" =>
                        /\ r_session[sret.sid].exp = sret.at + session_ttl
                        /\ r_user[sret.user].exp = sret.at + session_ttl

-----------------------------------------------------------------------------
(* Cache keys, the two cache services, the size of the in-memory cache *)

\* C14 (key derivation is deterministic and argument-sensitive): two calls of
\* cache_key_for_suggestion return the same digest exactly when their argument
\* triples are the same.
C14_DigestIffArguments ==
    (k_prev.called /\ k_last.called)
    => (k_prev.digest = k_last.digest <=> k_prev.args = k_last.args)

\* C15 (the two cache services are interchangeable): every call made on both
\* services, both empty at the start and given the same calls at the same times,
\* returns the same result from both.
C15_SameResults == pair.op # "none" => pair.mem = pair.redis

\* C17 (the in-memory cache is bounded): the number of entries the in-memory
\* cache holds never exceeds the configured maximum size.
C17_SizeBounded == cbackend = "memory" => Cardinality(DOMAIN cache) <= max_size

-----------------------------------------------------------------------------
(* GET /health *)

-----------------------------------------------------------------------------
(* Cache manager: concurrent get_or_set calls *)

\* the values the selected store holds under (key, ns) after a step
ValueHeldAfter(key, ns) ==
    IF cbackend = "memory"
    THEN {cache'[k].value : k \in {MemMakeKey(key, ns)} \cap DOMAIN cache'}
    ELSE {DeserializeValue(r_cache'[k].v) : k \in {RedisMakeKey(key, ns)} \cap DOMAIN r_cache'}

\* C21 (racing get_or_set calls, last write wins): in every interleaving a call
\* that missed returns the value it computed itself, and its write replaces
\* whatever the key held, so that after the writes of two racing calls the key
\* holds the value written last.
C21_LastWriteWins ==
    [][\A p \in Callers :
        (gos[p].pc = "set" /\ gos'[p] # gos[p])
        => /\ calls'.last = gos[p].new_value
           /\ ValueHeldAfter(gos[p].key, gos[p].ns) = {gos[p].new_value}]_vars

\* two calls missed on the same key, both computed before either wrote, both
\* wrote, and both have returned
C21_BothComputedBothWrote ==
    /\ calls.raced
    /\ calls.computes >= 2 /\ calls.sets >= 2 /\ hit_count = 0
    /\ \A p \in Callers : gos[p].pc = "idle"
    /\ calls.last = "str"

\* the tasks that are at an access to the given process-local map
Accessing(store) == {t \in Tasks : Running(t) /\ Current(t) = Ins("map", store)}

\* C22: every operation of the process-local cache store and of the
\* process-local session store accesses the store's map inside one exclusive
\* critical section: at most one task is at an access to a given store's map
\* at a time.
C22_OneAccessorPerStore ==
    \A store \in {"cache", "sessions"} : Cardinality(Accessing(store)) <= 1

Held(t) == {l \in Locks : l_locks[l] = t}

\* C23: no lock is held across a suspension: a task that is about to await a
\* backend call, the compute function of get_or_set or a timer, or to acquire a
\* lock, holds neither the statistics lock nor the map lock, whichever
\* coroutine it runs (request handling, the session sweep, the health loop).
C23_NoLockAcrossSuspension ==
    \A t \in Tasks :
        (Running(t) /\ Current(t).i \in {"await", "acquire"}) => Held(t) = {}

\* a get_or_set is suspended in its compute function, having taken and
\* released both locks, while another task holds the statistics lock and the
\* health loop is inside its cache probe
C23_ComputeWhileLocked ==
    /\ cbackend = "memory"
    /\ \E t \in Tasks : \E u \in Tasks \ {t} :
        /\ Running(t) /\ l_tasks[t].name = "get_or_set_miss"
        /\ Current(t) = Ins("await", "value_func")
        /\ l_locks["_stats_lock"] = u


\* C25 (how a session ends), on the scenarios of the specification: a session
\* created by create_session and found by the sweep more than session_ttl
\* seconds later, untouched, is stored with status Expired; a session created
\* by create_session and ended by end_session of its id is stored with status
\* Inactive; and every stored session has one of the declared statuses.
C25_TerminalStatuses ==
    /\ (/\ sprev.op = "create_session" /\ sret.op = "cleanup_expired_sessions"
        /\ sprev.at + session_ttl < sret.at
        /\ Answered(sprev) /\ Answered(sret))
       => /\ sprev.out = "ok"
          /\ \A x \in sprev.session :
                \E r \in StoredSessions :
                    r.id = x.session_id /\ r.status = SessionStatus.EXPIRED
    /\ (/\ sprev.op = "create_session" /\ sret.op = "end_session"
        /\ Answered(sprev) /\ Answered(sret))
       => /\ sprev.out = "ok"
          /\ \A x \in sprev.session :
                x.session_id = sret.sid =>
                    \E r \in StoredSessions :
                        r.id = sret.sid /\ r.status = SessionStatus.INACTIVE
    /\ \A r \in StoredSessions :
          r.status \in {SessionStatus[n] : n \in DOMAIN SessionStatus}


\* C26 (every entry carries its TTL): right after a set that stored an entry,
\* the entry of the pair was created at the time of the call and expires ttl
\* seconds later, where ttl is the argument of the call whenever one was given
\* (0 included) and default_ttl only when none was given.
C26_ExpiryIsCreatedPlusTtl ==
    (cret.op = "set" /\ cret.out = "ok" /\ cret.val = "True" /\ now = cret.at)
    => LET k == Phys(cret.key, cret.ns)
           ttl == EffectiveTtl(written[k].ttl)
       IN IF cbackend = "memory"
          THEN /\ k \in DOMAIN cache
               /\ cache[k].created_at = cret.at
               /\ cache[k].expires_at = cache[k].created_at + ttl
          ELSE LET rk == RedisMakeKey(cret.key, cret.ns)
               IN rk \in DOMAIN r_cache /\ r_cache[rk].exp = cret.at + ttl


-----------------------------------------------------------------------------
(* Namespaces: what get returns for each pair, before and after a call *)

\* the value get returns for (key, ns) from the selected store, as a set
ValueHeld(key, ns) ==
    IF cbackend = "memory"
    THEN {cache[k].value : k \in {MemMakeKey(key, ns)} \cap DOMAIN cache}
    ELSE {DeserializeValue(r_cache[k].v) : k \in {RedisMakeKey(key, ns)} \cap DOMAIN r_cache}

\* the entries of the selected store
Entries == IF cbackend = "memory" THEN DOMAIN cache ELSE DOMAIN r_cache

EntriesAfter == IF cbackend = "memory" THEN DOMAIN cache' ELSE DOMAIN r_cache'

\* C27 (clear_namespace): a clear_namespace(n) the backend carried out leaves
\* no entry under namespace n, returns the number of entries it removed, and
\* leaves what is stored under every pair of another namespace unchanged, also
\* when that namespace extends n or contains ':'.
C27_ClearsOnlyItsNamespace ==
    [][(cret'.op = "clear_namespace" /\ cret' # cret /\ cret'.out = "ok" /\ redis_up)
       => /\ cret'.count = Cardinality(Entries \ EntriesAfter)
          /\ \A q \in NamePairs :
                IF q[2] = cret'.ns
                THEN ValueHeldAfter(q[1], q[2]) = {}
                ELSE ValueHeldAfter(q[1], q[2]) = ValueHeld(q[1], q[2])]_vars

\* C28 (namespaces isolate keys): a set or a delete of one (key, namespace)
\* pair leaves what get returns for every other pair unchanged, also when the
\* key or the namespace contains ':'.
C28_PairsIsolated ==
    [][\A q \in NamePairs :
          (/\ cret'.op \in {"set", "delete"} /\ cret' # cret
           /\ <<cret'.key, cret'.ns>> # q)
          => ValueHeldAfter(q[1], q[2]) = ValueHeld(q[1], q[2])]_vars


\* C29 (a computed result is reused): when a get_or_set reads the cache for a
\* pair whose last stored result, written by an earlier get_or_set, has not
\* expired, the read gives that result and the call takes it for a hit, whatever
\* the value is, None included.
C29_ComputedResultReused ==
    [][\A p \in Callers :
          (/\ gos[p].pc = "idle" /\ gos'[p].pc = "count"
           /\ Phys(gos'[p].key, gos'[p].ns) \in DOMAIN written
           /\ now < ExpiryOf(written[Phys(gos'[p].key, gos'[p].ns)]))
          => /\ gos'[p].cached = written[Phys(gos'[p].key, gos'[p].ns)].value
             /\ IsHit(gos'[p].cached)]_vars


-----------------------------------------------------------------------------
(* Health cycle: the checks that raised *)

\* the component entries the checks of the last cycle returned
ReturnedEntries ==
    UNION {{h_checks[j].d[i] : i \in DOMAIN h_checks[j].d} :
            j \in {c \in DOMAIN h_checks : ~h_checks[c].raised}}

\* C30 (one failing check never aborts a health cycle): whichever of the four
\* checks raised, the cycle completed with an overall status, and its components
\* are exactly the entries of the checks that returned, each once; a check that
\* raised contributes none.
C30_RaisedCheckSkipped ==
    h_status # "none"
    => /\ h_status \in {HealthStatus.HEALTHY, HealthStatus.DEGRADED, HealthStatus.UNHEALTHY}
       /\ Len(h_checks) = 4
       /\ {h_components[i] : i \in DOMAIN h_components} = ReturnedEntries
       /\ Len(h_components) = Cardinality(ReturnedEntries)

\* a cycle in which the session-store probe raised and the three other checks
\* returned a component each, all three present in the result
C30_ProbeRaisedOthersPresent ==
    /\ h_status # "none"
    /\ h_checks[2].raised
    /\ \A j \in {1, 3, 4} : ~h_checks[j].raised /\ Len(h_checks[j].d) = 1
    /\ {h_components[i].name : i \in DOMAIN h_components} = {"system", "cache", "vscode"}


-----------------------------------------------------------------------------
(* Health checks: system resources and external services *)

\* the thresholds a reading of the last system check is strictly above
Breached ==
    (IF sys_last.cpu_percent > 80 THEN {"High CPU usage"} ELSE {})
    \cup (IF sys_last.memory_percent > 85 THEN {"High memory usage"} ELSE {})
    \cup (IF sys_last.disk_percent > 90 THEN {"Critical disk usage"} ELSE {})

\* C34 (system-resource check): for the readings of the last check, the status
\* is Unhealthy when disk% is strictly above 90, else Degraded when CPU% is
\* strictly above 80 or memory% strictly above 85, else Healthy; the message
\* names every breached threshold, each once, and is the healthy message
\* exactly when none is breached.
C34_SystemStatusRule ==
    (sys_last.called /\ ~sys_last.raised)
    => /\ sys_last.status =
            IF sys_last.disk_percent > 90 THEN "unhealthy"
            ELSE IF sys_last.cpu_percent > 80 \/ sys_last.memory_percent > 85
            THEN "degraded"
            ELSE "healthy"
       /\ IF Breached = {}
          THEN sys_last.message = <<"System resources are healthy">>
          ELSE /\ {sys_last.message[i] : i \in DOMAIN sys_last.message} = Breached
               /\ Len(sys_last.message) = Cardinality(Breached)

\* a check with CPU and memory just above their thresholds and the disk at its
\* threshold exactly, which is Degraded with both breaches in the message
C34_TwoBreachesDegraded ==
    /\ sys_last.called /\ ~sys_last.raised
    /\ sys_last.cpu_percent = 81 /\ sys_last.memory_percent = 86
    /\ sys_last.disk_percent = 90
    /\ sys_last.status = "degraded"
    /\ Len(sys_last.message) = 2

\* C35 (external-service probe): a response with a 2xx status yields Healthy,
\* a response with any other status yields Degraded, a timeout or a connection
\* error yields Unhealthy.
C35_ProbeStatusRule ==
    ext_last.via = "_check_vscode_health"
    => /\ Len(ext_last.components) = 1
       /\ ext_last.components[1].status =
            IF ext_last.kind = "response"
            THEN IF ext_last.http \in 200..299 THEN "healthy" ELSE "degraded"
            ELSE "unhealthy"

-----------------------------------------------------------------------------
(* Health probes of the session manager and the cache service *)

\* the synthetic cache entry of the probes, in the selected store
ProbeEntry ==
    IF cbackend = "memory"
    THEN {MemMakeKey(test_key, DefaultNamespace)} \cap DOMAIN cache
    ELSE {RedisMakeKey(test_key, DefaultNamespace)} \cap DOMAIN r_cache

\* C31: a finished cycle reports each probe Unknown when its service is not
\* configured, Unhealthy when a call of the probe raised or the value read back
\* was not the value written, and Healthy otherwise
C31_ProbeStatusRule ==
    \A t \in Cycles :
        q_cycles[t].pc = "done" =>
            /\ q_cycles[t].session =
                    IF ~q_cfg.session_manager THEN HealthStatus.UNKNOWN
                    ELSE IF q_cycles[t].sexc # "None" THEN HealthStatus.UNHEALTHY
                    ELSE HealthStatus.HEALTHY
            /\ q_cycles[t].cache =
                    IF ~q_cfg.cache_service THEN HealthStatus.UNKNOWN
                    ELSE IF q_cycles[t].exc \in {"RuntimeError"} THEN HealthStatus.UNHEALTHY
                    ELSE IF q_cycles[t].got # test_value THEN HealthStatus.UNHEALTHY
                    ELSE HealthStatus.HEALTHY

\* a cache probe that read back something else than it wrote and reported
\* Unhealthy, next to a cache probe that reported Healthy
C31_MismatchUnhealthy ==
    /\ q_cfg.cache_service
    /\ q_cycles[1].pc = "done" /\ q_cycles[1].exc = "ValueError"
    /\ q_cycles[1].got # test_value /\ q_cycles[1].cache = HealthStatus.UNHEALTHY
    /\ q_cycles[2].pc = "done" /\ q_cycles[2].cache = HealthStatus.HEALTHY

\* C32: a cycle whose cache service answered as a cache store should reports the
\* cache Healthy, also when another cycle ran at the same time
C32_ServedProbeHealthy ==
    \A t \in Cycles :
        (q_cycles[t].pc = "done" /\ q_cfg.cache_service /\ q_cycles[t].served)
            => q_cycles[t].cache = HealthStatus.HEALTHY

\* C33: a probe step changes no stored session and no cache entry but the
\* synthetic one, and when a cycle finishes while no other cycle is in progress
\* the synthetic cache entry is gone
C33_ProbesLeaveNothing ==
    [][(q_cycles' # q_cycles) =>
            /\ UNCHANGED <<sessions, user_sessions, r_session, r_user, r_active>>
            /\ \A k \in (DOMAIN cache \cup DOMAIN cache')
                        \ {MemMakeKey(test_key, DefaultNamespace)} :
                    k \in DOMAIN cache /\ k \in DOMAIN cache' /\ cache'[k] = cache[k]
            /\ \A k \in (DOMAIN r_cache \cup DOMAIN r_cache')
                        \ {RedisMakeKey(test_key, DefaultNamespace)} :
                    k \in DOMAIN r_cache /\ k \in DOMAIN r_cache' /\ r_cache'[k] = r_cache[k]
            /\ (\A t \in Cycles : q_cycles'[t].pc \in {"idle", "done"})
                    /\ (\E t \in Cycles : q_cycles'[t].pc = "done" /\ q_cycles[t].pc # "done")
                    /\ (\A t \in Cycles : q_cycles[t].pc \in {"idle", "done"}
                                            \/ q_cycles'[t].pc = "done")
                => ProbeEntry' = {}]_vars

-----------------------------------------------------------------------------
(* The background loops *)

\* the entries of a dict kept as a sequence of items
Items(components) == {components[i] : i \in DOMAIN components}

C37_StoppedMeansTerminated ==
    \A svc \in Services : b_stop[svc].st = "returned" => RunningLoops(svc) = {}

\* C38: a loop whose iteration raised an error other than cancellation runs
\* another iteration unless it is cancelled, and a loop ends only cancelled
C38_LoopOutlivesFailure ==
    /\ \A svc \in Services, i \in Starts :
            [](b_loops[svc][i].failed /\ ~b_loops[svc][i].cancel
                    => <>(b_loops[svc][i].st = "cycle" \/ b_loops[svc][i].cancel))
    /\ [](\A svc \in Services, i \in Starts :
            b_loops[svc][i].st = "done" => b_loops[svc][i].cancel)

\* a health cycle and a sweep have raised, and both loops sleep towards the next
\* iteration
C38_BothFailedBothSleep ==
    \A svc \in Services :
        \E i \in Starts : /\ b_loops[svc][i].failed /\ ~b_loops[svc][i].cancel
                          /\ b_loops[svc][i].st = "sleep"

\* C39: a service has at most one running loop task
C39_OneLoopPerService ==
    \A svc \in Services : Cardinality(RunningLoops(svc)) <= 1

====
